---- MODULE Spec2Model ----
(***************************************************************************)
(* Model of package credentialsfile: NewValueResolver, staticValue and the *)
(* fileWatcher (Start, Shutdown, watch, reloadQuietly, reload, Value),     *)
(* together with the collaborators the watcher runs against: the file at  *)
(* the watched path, the fsnotify watcher (one registration, one event     *)
(* stream), the context passed to Start, and concurrent callers of Value.  *)
(* The blobEventHandler of the azureblob receiver (run, pollBlobs,         *)
(* processContainers, processContainer, close) is modelled next to it, on  *)
(* variables of its own, with the blob client and the two data consumers.  *)
(*                                                                         *)
(* Strings are sequences of one-character strings.  A Go *string is a      *)
(* sequence of length at most one: <<>> is nil, <<s>> points to s.         *)
(***************************************************************************)
EXTENDS Integers, Sequences, FiniteSets, TLC

VARIABLES
    \* ---- the call NewValueResolver(inlineValue, filePath, logger, opts...)
    inlineValue,   \* argument inlineValue
    filePath,      \* argument filePath
    hasOnChange,   \* TRUE when the option WithOnChange was passed
    resolver,      \* "none" | "static" | "file": the variant returned
    newErr,        \* "unset" | "nil" | "errNoValueProvided"
    \* ---- the caller that owns the resolver (one goroutine, sequential)
    callerPc,      \* position of the owning caller
    startErr,      \* "unset" | "nil" | "load" | "newWatcher" | "add"
    shutdowns,     \* number of Shutdown calls that have returned
    \* ---- fileWatcher fields
    value,         \* atomic.Pointer[string]
    shutdownCH,    \* "nil" | "open" | "closed"
    doneCH,        \* "nil" | "open" | "closed"
    onChangeCalls, \* number of onChange invocations so far
    onChangeArg,   \* <<>> or <<argument of the latest onChange invocation>>
    \* ---- the reload in flight (local variables of reload, per thread)
    rstep,         \* thread -> "idle" | "read" | "more" | "store" | "cb"
    data,          \* thread -> <<>> or <<bytes read by os.ReadFile so far>>
    fd,            \* thread -> <<>>, or <<"live">> for a file open on the
                   \* inode the path resolves to, or <<"gone", c>> for one
                   \* open on an inode that has left the path holding c
    \* ---- the watch goroutine
    loopPc,        \* position of fileWatcher.watch
    ev,            \* the event being handled
    ctxDone,       \* TRUE once the context passed to Start is cancelled
    \* ---- the fsnotify watcher
    watcherState,  \* "none" | "open" | "closed"
    watchInode,    \* inode the registration for path is on, 0 when none
    events,        \* events delivered on watcher.Events, not yet received
    \* ---- the file system under the watched path
    fileInode,     \* inode the path resolves to, 0 when it resolves to none
    content,       \* bytes of that inode
    readable,      \* FALSE when that inode cannot be opened for reading
    staleInode,    \* previous symlink target, still present, 0 when none
    nextInode,     \* next unused inode number
    \* ---- history variables used to state the properties
    fsVer,         \* number of file-system operations so far
    lastOp,        \* kind of the latest file-system operation
    opWatched,     \* the latest operation hit the inode carrying the watch
    writing,       \* <<>> or <<bytes an os.WriteFile in progress will write>>
    oldContent,    \* <<c>> when the latest operation is an in-place overwrite
                   \* that began with content c published and no other bytes
                   \* held by a reload in flight; <<>> otherwise
    preValue,      \* thread -> value when its reload in flight began
    observed,      \* <<>> or <<latest result of a concurrent Value() call>>
    \* ---- blobEventHandler fields and collaborators
    containerName, \* branch -> logsContainerName or tracesContainerName
    hasConsumer,   \* branch -> its data consumer is not nil
    blobCount,     \* container name -> number of blobs listBlobs returns
    cancelFunc,    \* "nil" | "set"
    blobCtxDone,   \* TRUE once the context pollBlobs runs under is done
    wg,            \* counter of the sync.WaitGroup
    pollPc,        \* "none" | "pass" | "select" | "exited": pollBlobs
    passPc,        \* "idle" | "logs" | "traces" | "end": processContainers
    contPc,        \* "idle" | "list" | "check" | "read" | "consume"
    contArg,       \* argument containerName of processContainer
    todo,          \* blobs of the range loop not yet reached
    ticks,         \* number of ticks of the ticker received so far
    closePc,       \* "idle" | "wait" | "returned": the caller of close
    \* ---- history of the latest processContainers pass
    listed,        \* calls of listBlobs: <<branch, container, succeeded>>
    reads,         \* calls of readBlob: <<branch, container, blob, succeeded>>
    consumed,      \* calls of the consumers:
                   \* <<consumer, container, blob, succeeded>>
    \* ---- eventHubEventHandler fields and collaborators
    hub,           \* "nil" | "open": the consumer client p.hub
    hubCancelFunc, \* "nil" | "set": p.cancelFunc
    hubCtxDone,    \* TRUE once the context of the receivers is done
    hubWg,         \* counter of p.wg
    partitionIDs,  \* number of partitions GetEventHubProperties reported
    runPc,         \* "idle" | "connect" | "props" | "range" | "client" |
                   \* "returned": the caller of run
    runErr,        \* "unset" | "nil" | "connect" | "props" | "client"
    runs,          \* number of calls of run made so far
    partIdx,       \* partition the range loop of run is at
    receivers,     \* partition -> "none" | "check" | "blocked" | "handle" |
                   \* "closing" | "closed" | "exited", and for a receiver
                   \* that panicked "panicClosing" | "panicClosed" |
                   \* "panicDone" | "crashed"
    polls,         \* partition -> calls of ReceiveEvents made so far
    pending,       \* partition -> events received and not yet handled
    outcome,       \* partition -> what the latest call of the handler did
    hubHasConsumer,\* container -> its data consumer is not nil
    hubClosePc,    \* "idle" | "wait" | "returned": the caller of close
    hubCloseErr    \* "unset" | "nil" | "close"

callerVars  == <<inlineValue, filePath, hasOnChange, resolver, newErr,
                 callerPc, startErr, shutdowns>>
watcherVars == <<value, shutdownCH, doneCH, onChangeCalls, onChangeArg>>
reloadVars  == <<rstep, data, fd, preValue>>
loopVars    == <<loopPc, ev, ctxDone>>
notifyVars  == <<watcherState, watchInode, events>>
fsVars      == <<fileInode, content, readable, staleInode, nextInode,
                 fsVer, lastOp, opWatched, writing, oldContent>>
blobVars    == <<containerName, hasConsumer, blobCount, cancelFunc,
                 blobCtxDone, wg, pollPc, passPc, contPc, contArg, todo, ticks,
                 closePc, listed, reads, consumed>>
fileVars    == <<callerVars, watcherVars, reloadVars, loopVars, notifyVars,
                 fsVars, observed>>
hubVars     == <<hub, hubCancelFunc, hubCtxDone, hubWg, partitionIDs, runPc,
                 runErr, runs, partIdx, receivers, polls, pending, outcome,
                 hubHasConsumer, hubClosePc, hubCloseErr>>
vars == <<fileVars, blobVars, hubVars>>

----------------------------------------------------------------------------
\* Bounds of the model.

\* Number of file-system operations the environment performs.
MaxFsOps == 2
\* Number of Shutdown calls the owner makes.
MaxShutdowns == 2
\* Number of blobs a container holds.
MaxBlobs == 2
\* Number of partitions of the event hub.
MaxPartitions == 2
\* Number of calls of ReceiveEvents that return in one receiver.
MaxPolls == 1
\* Number of calls of run.
MaxRuns == 2
\* Number of ticks of the poll ticker.
MaxTicks == 1

\* Byte strings a file holds: empty, white space only, bare values, and
\* values wrapped in white space (one with white space inside).  Every
\* character in them is one byte.
Contents ==
    { <<>>,
      <<" ", "\n">>,
      <<"a">>,
      <<"U+000B", "a", "\n">>,
      <<"b">>,
      <<"\t", "b", " ", "c", " ">> }

\* Calls of NewValueResolver that are tried: <<inlineValue, filePath,
\* whether WithOnChange is passed>>.
Calls ==
    { << <<>>, <<>>, FALSE >>,
      << <<>>, <<>>, TRUE >>,
      << <<"a">>, <<>>, FALSE >>,
      << <<"a">>, <<>>, TRUE >>,
      << <<>>, <<"p">>, TRUE >>,
      << <<"a">>, <<"p">>, FALSE >> }

Threads == {"start", "loop"}

----------------------------------------------------------------------------
\* strings.TrimSpace: leading and trailing white space removed.  A string
\* is a sequence of characters; a character the module language has no
\* literal for is written as its code point, "U+000B" for '\v'.  IsSpace
\* is unicode.IsSpace: '\t', '\n', '\v', '\f', '\r', ' ', U+0085 (NEL),
\* U+00A0 (NBSP) and the characters of the category Z and the property
\* Pattern_White_Space beyond Latin-1.

IsSpace(c) ==
    c \in {" ", "\t", "\n", "\r", "\f", "U+000B", "U+0085", "U+00A0",
           "U+1680", "U+2000", "U+2001", "U+2002", "U+2003", "U+2004",
           "U+2005", "U+2006", "U+2007", "U+2008", "U+2009", "U+200A",
           "U+2028", "U+2029", "U+202F", "U+205F", "U+3000"}

RECURSIVE TrimLeft(_)
TrimLeft(s) ==
    IF s = <<>> THEN s
    ELSE IF IsSpace(Head(s)) THEN TrimLeft(Tail(s)) ELSE s

RECURSIVE TrimRight(_)
TrimRight(s) ==
    IF s = <<>> THEN s
    ELSE IF IsSpace(s[Len(s)]) THEN TrimRight(SubSeq(s, 1, Len(s) - 1)) ELSE s

TrimSpace(s) == TrimRight(TrimLeft(s))

----------------------------------------------------------------------------
\* NewValueResolver: the variant chosen for the two inputs.

ResolverKind_InlineFirst(inl, fp) ==
    IF inl # <<>> THEN "static"
    ELSE IF fp # <<>> THEN "file"
    ELSE "error"

ResolverKind_ErrOnEmptyInline(inl, fp) ==
    IF inl = <<>> THEN "error"
    ELSE IF fp # <<>> THEN "file"
    ELSE "static"

ResolverKind(inl, fp) ==
    IF fp # <<>> THEN "file"
    ELSE IF inl = <<>> THEN "error"
    ELSE "static"

NewValueResolver_LoadsFile(inl, fp, oc) ==
    /\ callerPc = "new"
    /\ inlineValue' = inl
    /\ filePath' = fp
    /\ hasOnChange' = oc
    /\ LET k == ResolverKind(inl, fp)
           missing == fileInode = 0 \/ ~readable IN
         IF k = "error" \/ (k = "file" /\ missing)
         THEN /\ resolver' = "none"
              /\ newErr' = "errNoValueProvided"
              /\ callerPc' = "configError"
              /\ UNCHANGED value
         ELSE /\ resolver' = k
              /\ newErr' = "nil"
              /\ callerPc' = "constructed"
              /\ value' = IF k = "file" THEN <<content>> ELSE value
    /\ UNCHANGED <<blobVars, hubVars>>
    /\ UNCHANGED <<startErr, shutdowns, shutdownCH, doneCH, onChangeCalls,
                   onChangeArg, reloadVars, loopVars, notifyVars, fsVars, observed>>

NewValueResolver(inl, fp, oc) ==
    /\ callerPc = "new"
    /\ inlineValue' = inl
    /\ filePath' = fp
    /\ hasOnChange' = oc
    /\ LET k == ResolverKind(inl, fp) IN
         IF k = "error"
         THEN /\ resolver' = "none"
              /\ newErr' = "errNoValueProvided"
              /\ callerPc' = "configError"
         ELSE /\ resolver' = k
              /\ newErr' = "nil"
              /\ callerPc' = "constructed"
    /\ UNCHANGED <<blobVars, hubVars>>
    /\ UNCHANGED <<startErr, shutdowns, watcherVars, reloadVars, loopVars,
                   notifyVars, fsVars, observed>>

\* fileWatcher.Value and staticValue.Value.
FileValue == IF value = <<>> THEN <<>> ELSE value[1]

Value_OfWatcher == FileValue

Value == IF resolver = "static" THEN inlineValue ELSE FileValue

----------------------------------------------------------------------------
\* staticValue.Start and staticValue.Shutdown return nil and do nothing, in
\* whatever order and however often they are called.

StaticStart ==
    /\ resolver = "static"
    /\ callerPc \in {"constructed", "started", "stopped"}
    /\ callerPc' = "started"
    /\ startErr' = "nil"
    /\ UNCHANGED <<blobVars, hubVars>>
    /\ UNCHANGED <<inlineValue, filePath, hasOnChange, resolver, newErr,
                   shutdowns, watcherVars, reloadVars, loopVars, notifyVars,
                   fsVars, observed>>

StaticShutdown ==
    /\ resolver = "static"
    /\ callerPc \in {"constructed", "started", "stopped"}
    /\ shutdowns < MaxShutdowns
    /\ callerPc' = "stopped"
    /\ shutdowns' = shutdowns + 1
    /\ UNCHANGED <<blobVars, hubVars>>
    /\ UNCHANGED <<inlineValue, filePath, hasOnChange, resolver, newErr,
                   startErr, watcherVars, reloadVars, loopVars, notifyVars,
                   fsVars, observed>>

----------------------------------------------------------------------------
\* fileWatcher.reload, in three steps: os.ReadFile, TrimSpace with the
\* emptiness check and value.Store, then the onChange callback.

\* The zero fsnotify.Event: no event is being handled.
NoEvent == [Op |-> {}, Name |-> <<>>]

\* os.ReadFile(w.path), os.Open: fails when the path resolves to nothing
\* or the file may not be read.
OpenFails == fileInode = 0 \/ ~readable

\* The bytes of the file a descriptor is open on.
FileOf(d) == IF d = <<"live">> THEN content ELSE d[2]

\* An operation takes the inode away from the path: descriptors open on
\* it keep the inode and what it holds.
Detached ==
    [t \in Threads |-> IF fd[t] = <<"live">> THEN <<"gone", content>>
                       ELSE fd[t]]

\* val := strings.TrimSpace(string(data))
ReloadVal(d) == TrimSpace(d)

\* if val == "" { return error }
ReloadRejects_Never(val) == FALSE

ReloadRejects(val) == val = <<>>

\* The return of reload to its caller: Start propagates the error,
\* reloadQuietly logs it and goes on.
ReloadReturn_StartIgnoresError(t, ok) ==
    /\ rstep' = [rstep EXCEPT ![t] = "idle"]
    /\ data' = [data EXCEPT ![t] = <<>>]
    /\ preValue' = [preValue EXCEPT ![t] = <<>>]
    /\ observed' = <<>>
    /\ IF t = "start"
       THEN /\ callerPc' = "start_newWatcher"
            /\ UNCHANGED <<startErr, loopPc, ev>>
       ELSE /\ loopPc' = IF loopPc = "reload1" THEN "checkWrite" ELSE "select"
            /\ ev' = IF loopPc = "reload1" THEN ev ELSE NoEvent
            /\ UNCHANGED <<callerPc, startErr>>

ReloadReturn_LoopStopsOnError(t, ok) ==
    /\ rstep' = [rstep EXCEPT ![t] = "idle"]
    /\ data' = [data EXCEPT ![t] = <<>>]
    /\ preValue' = [preValue EXCEPT ![t] = <<>>]
    /\ observed' = <<>>
    /\ IF t = "start"
       THEN /\ callerPc' = IF ok THEN "start_newWatcher" ELSE "startFailed"
            /\ startErr' = IF ok THEN startErr ELSE "load"
            /\ UNCHANGED <<loopPc, ev>>
       ELSE /\ loopPc' = IF ~ok THEN "closing"
                         ELSE IF loopPc = "reload1" THEN "checkWrite"
                         ELSE "select"
            /\ ev' = IF ok /\ loopPc = "reload1" THEN ev ELSE NoEvent
            /\ UNCHANGED <<callerPc, startErr>>

ReloadReturn(t, ok) ==
    /\ rstep' = [rstep EXCEPT ![t] = "idle"]
    /\ data' = [data EXCEPT ![t] = <<>>]
    /\ preValue' = [preValue EXCEPT ![t] = <<>>]
    /\ observed' = <<>>
    /\ IF t = "start"
       THEN /\ callerPc' = IF ok THEN "start_newWatcher" ELSE "startFailed"
            /\ startErr' = IF ok THEN startErr ELSE "load"
            /\ UNCHANGED <<loopPc, ev>>
       ELSE /\ loopPc' = IF loopPc = "reload1" THEN "checkWrite" ELSE "select"
            /\ ev' = IF loopPc = "reload1" THEN ev ELSE NoEvent
            /\ UNCHANGED <<callerPc, startErr>>

ReloadRead_ClearsOnError(t) ==
    /\ rstep[t] = "read"
    /\ IF OpenFails
       THEN /\ ReloadReturn(t, FALSE)
            /\ value' = <<>>
            /\ UNCHANGED fd
       ELSE /\ rstep' = [rstep EXCEPT ![t] = "more"]
            /\ data' = [data EXCEPT ![t] = << <<>> >>]
            /\ fd' = [fd EXCEPT ![t] = <<"live">>]
            /\ UNCHANGED <<callerPc, startErr, loopPc, ev, preValue,
                           observed, value>>
    /\ UNCHANGED <<blobVars, hubVars>>
    /\ UNCHANGED <<inlineValue, filePath, hasOnChange, resolver, newErr,
                   shutdowns, shutdownCH, doneCH, onChangeCalls, onChangeArg,
                   ctxDone, notifyVars, fsVars>>

\* data, err := os.ReadFile(w.path), its os.Open: the file is opened on
\* the inode the path resolves to now, with an empty buffer; on an error
\* reload returns it.
ReloadRead(t) ==
    /\ rstep[t] = "read"
    /\ IF OpenFails
       THEN /\ ReloadReturn(t, FALSE)
            /\ UNCHANGED fd
       ELSE /\ rstep' = [rstep EXCEPT ![t] = "more"]
            /\ data' = [data EXCEPT ![t] = << <<>> >>]
            /\ fd' = [fd EXCEPT ![t] = <<"live">>]
            /\ UNCHANGED <<callerPc, startErr, loopPc, ev, preValue,
                           observed>>
    /\ UNCHANGED <<blobVars, hubVars>>
    /\ UNCHANGED <<inlineValue, filePath, hasOnChange, resolver, newErr,
                   shutdowns, watcherVars, ctxDone, notifyVars, fsVars>>

\* os.ReadFile, one f.Read of its loop: read(2) at the offset reached
\* returns the bytes the file holds beyond it, which are appended; when
\* there are none it returns 0, which is io.EOF: the file is closed and
\* the bytes collected are the result.
ReloadMore(t) ==
    /\ rstep[t] = "more"
    /\ LET file == FileOf(fd[t])
           off == Len(data[t][1])
       IN IF Len(file) > off
          THEN /\ data' = [data EXCEPT
                             ![t] = <<@[1] \o SubSeq(file, off + 1, Len(file))>>]
               /\ UNCHANGED <<rstep, fd>>
          ELSE /\ rstep' = [rstep EXCEPT ![t] = "store"]
               /\ fd' = [fd EXCEPT ![t] = <<>>]
               /\ UNCHANGED data
    /\ UNCHANGED <<blobVars, hubVars>>
    /\ UNCHANGED <<callerVars, watcherVars, preValue, loopVars, notifyVars,
                   fsVars, observed>>

ReloadStore(t) ==
    /\ rstep[t] = "store"
    /\ UNCHANGED fd
    /\ LET val == ReloadVal(data[t][1]) IN
         IF ReloadRejects(val)
         THEN /\ ReloadReturn(t, FALSE)
              /\ UNCHANGED value
         ELSE /\ value' = <<val>>
              /\ preValue' = preValue
              /\ rstep' = [rstep EXCEPT ![t] = "cb"]
              /\ UNCHANGED <<data, callerPc, startErr, loopPc, ev,
                             observed>>
    /\ UNCHANGED <<blobVars, hubVars>>
    /\ UNCHANGED <<inlineValue, filePath, hasOnChange, resolver, newErr,
                   shutdowns, shutdownCH, doneCH, onChangeCalls, onChangeArg,
                   ctxDone, notifyVars, fsVars>>

\* if w.onChange != nil { w.onChange(val) }; return nil
ReloadCallback_NotOnInitialLoad(t) ==
    /\ rstep[t] = "cb"
    /\ UNCHANGED fd
    /\ LET called == hasOnChange /\ t # "start" IN
         /\ onChangeCalls' = IF called THEN onChangeCalls + 1
                             ELSE onChangeCalls
         /\ onChangeArg' = IF called THEN <<ReloadVal(data[t][1])>>
                           ELSE onChangeArg
    /\ ReloadReturn(t, TRUE)
    /\ UNCHANGED <<blobVars, hubVars>>
    /\ UNCHANGED <<inlineValue, filePath, hasOnChange, resolver, newErr,
                   shutdowns, value, shutdownCH, doneCH, ctxDone, notifyVars,
                   fsVars>>

ReloadCallback(t) ==
    /\ rstep[t] = "cb"
    /\ UNCHANGED fd
    /\ onChangeCalls' = IF hasOnChange THEN onChangeCalls + 1
                        ELSE onChangeCalls
    /\ onChangeArg' = IF hasOnChange THEN <<ReloadVal(data[t][1])>>
                      ELSE onChangeArg
    /\ ReloadReturn(t, TRUE)
    /\ UNCHANGED <<blobVars, hubVars>>
    /\ UNCHANGED <<inlineValue, filePath, hasOnChange, resolver, newErr,
                   shutdowns, value, shutdownCH, doneCH, ctxDone, notifyVars,
                   fsVars>>

\* Entry into reload by thread t.
BeginReload(t) ==
    /\ rstep' = [rstep EXCEPT ![t] = "read"]
    /\ preValue' = [preValue EXCEPT ![t] = value]
    /\ observed' = <<>>
    /\ UNCHANGED <<data, fd>>

----------------------------------------------------------------------------
\* The fsnotify watcher.

\* watcher.Add(w.path): inotify_add_watch follows symbolic links and puts
\* the watch on the inode the path resolves to; it fails on a closed
\* watcher, on a path that resolves to nothing and on a file that cannot
\* be read.
CanAdd == watcherState = "open" /\ fileInode # 0 /\ readable

\* Events for an operation on inode i: delivered when the registration is
\* on i.
Notify(i, ops) ==
    IF watcherState = "open" /\ watchInode = i /\ i # 0
    THEN events \o [k \in 1..Len(ops) |-> [Op |-> {ops[k]}, Name |-> filePath]]
    ELSE events

\* The last link of inode i goes away: attribute change, then delete-self,
\* and the kernel drops the watch.
NotifyUnlink(i) ==
    /\ events' = Notify(i, <<"Chmod", "Remove">>)
    /\ watchInode' = IF watchInode = i THEN 0 ELSE watchInode
    /\ UNCHANGED watcherState

----------------------------------------------------------------------------
\* fileWatcher.Start.

StartBegin ==
    /\ resolver = "file"
    /\ callerPc = "constructed"
    /\ callerPc' = "start_reload"
    /\ BeginReload("start")
    /\ UNCHANGED <<blobVars, hubVars>>
    /\ UNCHANGED <<inlineValue, filePath, hasOnChange, resolver, newErr,
                   startErr, shutdowns, watcherVars, loopVars, notifyVars,
                   fsVars>>

\* fsnotify.NewWatcher(): may fail (no inotify instance left).
StartNewWatcher(ok) ==
    /\ callerPc = "start_newWatcher"
    /\ IF ok
       THEN /\ watcherState' = "open"
            /\ callerPc' = "start_spawn"
            /\ UNCHANGED startErr
       ELSE /\ callerPc' = "startFailed"
            /\ startErr' = "newWatcher"
            /\ UNCHANGED watcherState
    /\ UNCHANGED <<blobVars, hubVars>>
    /\ UNCHANGED <<inlineValue, filePath, hasOnChange, resolver, newErr,
                   shutdowns, watcherVars, reloadVars, loopVars, watchInode,
                   events, fsVars, observed>>

\* w.shutdownCH = make(...); w.doneCH = make(...); go w.watch(ctx, watcher)
StartSpawn ==
    /\ callerPc = "start_spawn"
    /\ shutdownCH' = "open"
    /\ doneCH' = "open"
    /\ loopPc' = "select"
    /\ callerPc' = "start_add"
    /\ UNCHANGED <<blobVars, hubVars>>
    /\ UNCHANGED <<inlineValue, filePath, hasOnChange, resolver, newErr,
                   startErr, shutdowns, value, onChangeCalls, onChangeArg, reloadVars, ev,
                   ctxDone, notifyVars, fsVars, observed>>

\* return watcher.Add(w.path)
StartAdd ==
    /\ callerPc = "start_add"
    /\ IF CanAdd
       THEN /\ watchInode' = fileInode
            /\ startErr' = "nil"
            /\ callerPc' = "started"
       ELSE /\ startErr' = "add"
            /\ callerPc' = "startFailed"
            /\ UNCHANGED watchInode
    /\ UNCHANGED <<blobVars, hubVars>>
    /\ UNCHANGED <<inlineValue, filePath, hasOnChange, resolver, newErr,
                   shutdowns, watcherVars, reloadVars, loopVars, watcherState,
                   events, fsVars, observed>>

----------------------------------------------------------------------------
\* fileWatcher.Shutdown.

\* <-w.doneCH returns once the channel is closed.
DoneReceived_NoWait == TRUE

DoneReceived == doneCH = "closed"

\* if w.shutdownCH != nil { close(w.shutdownCH); ...
ShutdownBegin ==
    /\ resolver = "file"
    /\ callerPc \in {"constructed", "started", "startFailed", "stopped"}
    /\ shutdowns < MaxShutdowns
    /\ IF shutdownCH = "nil"
       THEN /\ callerPc' = "stopped"
            /\ shutdowns' = shutdowns + 1
            /\ UNCHANGED shutdownCH
       ELSE IF shutdownCH = "open"
       THEN /\ shutdownCH' = "closed"
            /\ callerPc' = "sd_wait"
            /\ UNCHANGED shutdowns
       ELSE /\ callerPc' = "panic"
            /\ UNCHANGED <<shutdownCH, shutdowns>>
    /\ UNCHANGED <<blobVars, hubVars>>
    /\ UNCHANGED <<inlineValue, filePath, hasOnChange, resolver, newErr,
                   startErr, value, doneCH, onChangeCalls, onChangeArg, reloadVars,
                   loopVars, notifyVars, fsVars, observed>>

ShutdownWait_KeepsChannel ==
    /\ callerPc = "sd_wait"
    /\ DoneReceived
    /\ callerPc' = "stopped"
    /\ shutdowns' = shutdowns + 1
    /\ UNCHANGED <<blobVars, hubVars>>
    /\ UNCHANGED <<inlineValue, filePath, hasOnChange, resolver, newErr,
                   startErr, watcherVars, reloadVars, loopVars, notifyVars,
                   fsVars, observed>>

\* ... <-w.doneCH; w.shutdownCH = nil }; return nil
ShutdownWait ==
    /\ callerPc = "sd_wait"
    /\ DoneReceived
    /\ shutdownCH' = "nil"
    /\ callerPc' = "stopped"
    /\ shutdowns' = shutdowns + 1
    /\ UNCHANGED <<blobVars, hubVars>>
    /\ UNCHANGED <<inlineValue, filePath, hasOnChange, resolver, newErr,
                   startErr, value, doneCH, onChangeCalls, onChangeArg, reloadVars,
                   loopVars, notifyVars, fsVars, observed>>

----------------------------------------------------------------------------
\* fileWatcher.watch.

\* event.Op&(fsnotify.Remove|fsnotify.Chmod) != 0
IsRemoveOrChmod_Never(e) == FALSE

IsRemoveOrChmod(e) == e.Op \cap {"Remove", "Chmod"} # {}

\* event.Op&fsnotify.Write != 0
IsWrite_Never(e) == FALSE

IsWrite(e) == "Write" \in e.Op

\* case <-w.shutdownCH: return
LoopSelectShutdown ==
    /\ loopPc = "select"
    /\ shutdownCH = "closed"
    /\ loopPc' = "closing"
    /\ UNCHANGED <<blobVars, hubVars>>
    /\ UNCHANGED <<callerVars, watcherVars, reloadVars, ev, ctxDone,
                   notifyVars, fsVars, observed>>

\* case <-ctx.Done(): return
LoopSelectCtx ==
    /\ loopPc = "select"
    /\ ctxDone
    /\ loopPc' = "closing"
    /\ UNCHANGED <<blobVars, hubVars>>
    /\ UNCHANGED <<callerVars, watcherVars, reloadVars, ev, ctxDone,
                   notifyVars, fsVars, observed>>

\* case event, ok := <-watcher.Events; if !ok { return }: a receive from
\* the channel of a closed watcher yields ok = false.
LoopSelectEvent ==
    /\ loopPc = "select"
    /\ IF watcherState = "closed"
       THEN /\ loopPc' = "closing"
            /\ UNCHANGED <<ev, events>>
       ELSE /\ events # <<>>
            /\ ev' = Head(events)
            /\ events' = Tail(events)
            /\ loopPc' = IF IsRemoveOrChmod(Head(events))
                         THEN "remove" ELSE "checkWrite"
    /\ UNCHANGED <<blobVars, hubVars>>
    /\ UNCHANGED <<callerVars, watcherVars, reloadVars, ctxDone, watcherState,
                   watchInode, fsVars, observed>>

\* watcher.Remove(event.Name): ErrNonExistentWatch and any other error are
\* only logged.  Events of the removed registration that fsnotify has not
\* yet passed on may be dropped: any prefix of the pending events stays.
\* A name that carries no registration removes nothing.
LoopRemove(keep) ==
    /\ loopPc = "remove"
    /\ keep \in 0..Len(events)
    /\ IF ev.Name = filePath
       THEN /\ watchInode' = 0
            /\ events' = SubSeq(events, 1, keep)
       ELSE /\ keep = Len(events)
            /\ UNCHANGED <<watchInode, events>>
    /\ loopPc' = "add"
    /\ UNCHANGED <<blobVars, hubVars>>
    /\ UNCHANGED <<callerVars, watcherVars, reloadVars, ev, ctxDone,
                   watcherState, fsVars, observed>>

LoopAdd_NoRewatch ==
    /\ loopPc = "add"
    /\ loopPc' = "reload1"
    /\ BeginReload("loop")
    /\ UNCHANGED <<blobVars, hubVars>>
    /\ UNCHANGED <<callerVars, watcherVars, ev, ctxDone, notifyVars, fsVars>>

LoopAdd_FatalOnError ==
    /\ loopPc = "add"
    /\ IF CanAdd
       THEN /\ watchInode' = fileInode
            /\ loopPc' = "reload1"
            /\ BeginReload("loop")
            /\ UNCHANGED ev
       ELSE /\ loopPc' = "closing"
            /\ ev' = NoEvent
            /\ UNCHANGED <<watchInode, reloadVars, observed>>
    /\ UNCHANGED <<blobVars, hubVars>>
    /\ UNCHANGED <<callerVars, watcherVars, ctxDone, watcherState, events,
                   fsVars>>

\* watcher.Add(w.path), an error is only logged; then w.reloadQuietly()
LoopAdd ==
    /\ loopPc = "add"
    /\ watchInode' = IF CanAdd THEN fileInode ELSE watchInode
    /\ loopPc' = "reload1"
    /\ BeginReload("loop")
    /\ UNCHANGED <<blobVars, hubVars>>
    /\ UNCHANGED <<callerVars, watcherVars, ev, ctxDone, watcherState, events,
                   fsVars>>

\* if event.Op&fsnotify.Write != 0 { w.reloadQuietly() }
LoopCheckWrite ==
    /\ loopPc = "checkWrite"
    /\ IF IsWrite(ev)
       THEN /\ loopPc' = "reload2"
            /\ BeginReload("loop")
            /\ UNCHANGED ev
       ELSE /\ loopPc' = "select"
            /\ ev' = NoEvent
            /\ UNCHANGED <<reloadVars, observed>>
    /\ UNCHANGED <<blobVars, hubVars>>
    /\ UNCHANGED <<callerVars, watcherVars, ctxDone, notifyVars, fsVars>>

LoopClose_LeavesHandleOpen ==
    /\ loopPc = "closing"
    /\ loopPc' = "closed"
    /\ UNCHANGED <<blobVars, hubVars>>
    /\ UNCHANGED <<callerVars, watcherVars, reloadVars, ev, ctxDone,
                   notifyVars, fsVars, observed>>

\* defer watcher.Close()
LoopClose ==
    /\ loopPc = "closing"
    /\ watcherState' = "closed"
    /\ watchInode' = 0
    /\ events' = <<>>
    /\ loopPc' = "closed"
    /\ UNCHANGED <<blobVars, hubVars>>
    /\ UNCHANGED <<callerVars, watcherVars, reloadVars, ev, ctxDone, fsVars,
                   observed>>

LoopDone_KeepsDoneOpen ==
    /\ loopPc = "closed"
    /\ loopPc' = "exited"
    /\ UNCHANGED <<blobVars, hubVars>>
    /\ UNCHANGED <<callerVars, watcherVars, reloadVars, ev, ctxDone,
                   notifyVars, fsVars, observed>>

\* defer close(w.doneCH)
LoopDone ==
    /\ loopPc = "closed"
    /\ doneCH' = "closed"
    /\ loopPc' = "exited"
    /\ UNCHANGED <<blobVars, hubVars>>
    /\ UNCHANGED <<callerVars, value, shutdownCH, onChangeCalls, onChangeArg, reloadVars,
                   ev, ctxDone, notifyVars, fsVars, observed>>

\* The context passed to Start is cancelled by its owner while the loop
\* that selects on it is running.
CancelCtx ==
    /\ resolver = "file"
    /\ loopPc \notin {"none", "exited"}
    /\ ~ctxDone
    /\ ctxDone' = TRUE
    /\ UNCHANGED <<blobVars, hubVars>>
    /\ UNCHANGED <<callerVars, watcherVars, reloadVars, loopPc, ev,
                   notifyVars, fsVars, observed>>

\* A concurrent caller of Value(); the result is kept while a reload is in
\* flight.
ReadValue ==
    /\ resolver # "none"
    /\ observed' = IF \E t \in Threads : rstep[t] # "idle"
                   THEN <<Value>> ELSE observed
    /\ UNCHANGED <<blobVars, hubVars>>
    /\ UNCHANGED <<callerVars, watcherVars, reloadVars, loopVars, notifyVars,
                   fsVars>>

----------------------------------------------------------------------------
\* The file system: what other processes do to the watched path.

Watched(i) == watcherState = "open" /\ watchInode = i /\ i # 0

FsStep(kind, hit) ==
    /\ resolver = "file"
    /\ writing = <<>>
    /\ fsVer < MaxFsOps
    /\ fsVer' = fsVer + 1
    /\ lastOp' = kind
    /\ opWatched' = Watched(hit)

\* os.WriteFile(path, c, perm) on the file in place, first half: open(2)
\* with O_TRUNC empties the file.
FsOverwriteBegin(c) ==
    /\ fileInode # 0
    /\ FsStep("truncate", fileInode)
    /\ writing' = <<c>>
    /\ oldContent' = IF /\ startErr = "nil"
                        /\ value = <<TrimSpace(content)>>
                        /\ \A t \in Threads : data[t] \in {<<>>, <<content>>}
                     THEN <<content>> ELSE <<>>
    /\ content' = <<>>
    /\ events' = Notify(fileInode, <<"Write">>)
    /\ UNCHANGED <<blobVars, hubVars>>
    /\ UNCHANGED <<callerVars, watcherVars, reloadVars, loopVars,
                   watcherState, watchInode, fileInode, readable, staleInode,
                   nextInode, observed>>

\* os.WriteFile, second half: one write(2) of all of c, then close(2).
FsOverwriteEnd ==
    /\ writing # <<>>
    /\ writing' = <<>>
    /\ content' = writing[1]
    /\ lastOp' = "write"
    /\ opWatched' = Watched(fileInode)
    /\ events' = IF writing[1] = <<>> THEN events
                 ELSE Notify(fileInode, <<"Write">>)
    /\ UNCHANGED <<blobVars, hubVars>>
    /\ UNCHANGED <<callerVars, watcherVars, reloadVars, loopVars,
                   watcherState, watchInode, fileInode, readable, staleInode,
                   nextInode, fsVer, oldContent, observed>>

\* rename(2) of a sibling file holding c over the path.
FsReplace(c) ==
    /\ FsStep("replace", fileInode)
    /\ NotifyUnlink(fileInode)
    /\ fileInode' = nextInode
    /\ nextInode' = nextInode + 1
    /\ content' = c
    /\ readable' = TRUE
    /\ oldContent' = <<>>
    /\ UNCHANGED writing
    /\ UNCHANGED <<blobVars, hubVars>>
    /\ fd' = Detached
    /\ UNCHANGED <<callerVars, watcherVars, rstep, data, preValue, loopVars,
                   staleInode, observed>>

\* The symbolic link the path goes through is repointed to a directory
\* whose file holds c; the previous target stays until it is removed.
FsSymlinkSwap(c) ==
    /\ fileInode # 0
    /\ staleInode = 0
    /\ FsStep("swap", fileInode)
    /\ staleInode' = fileInode
    /\ fileInode' = nextInode
    /\ nextInode' = nextInode + 1
    /\ content' = c
    /\ readable' = TRUE
    /\ oldContent' = <<>>
    /\ UNCHANGED writing
    /\ UNCHANGED <<blobVars, hubVars>>
    /\ fd' = Detached
    /\ UNCHANGED <<callerVars, watcherVars, rstep, data, preValue, loopVars,
                   notifyVars, observed>>

\* The previous target directory is removed.
FsRemoveStale ==
    /\ staleInode # 0
    /\ FsStep("removeOld", staleInode)
    /\ NotifyUnlink(staleInode)
    /\ staleInode' = 0
    /\ oldContent' = <<>>
    /\ UNCHANGED writing
    /\ UNCHANGED <<blobVars, hubVars>>
    /\ UNCHANGED <<callerVars, watcherVars, reloadVars, loopVars, fileInode,
                   content, readable, nextInode, observed>>

\* unlink(2) of the path.
FsDelete ==
    /\ fileInode # 0
    /\ FsStep("delete", fileInode)
    /\ NotifyUnlink(fileInode)
    /\ fileInode' = 0
    /\ content' = <<>>
    /\ readable' = TRUE
    /\ oldContent' = <<>>
    /\ UNCHANGED writing
    /\ UNCHANGED <<blobVars, hubVars>>
    /\ fd' = Detached
    /\ UNCHANGED <<callerVars, watcherVars, rstep, data, preValue, loopVars,
                   staleInode, nextInode, observed>>

\* chmod(2) that takes away or gives back the read permission.
FsChmod ==
    /\ fileInode # 0
    /\ FsStep("chmod", fileInode)
    /\ readable' = ~readable
    /\ events' = Notify(fileInode, <<"Chmod">>)
    /\ oldContent' = <<>>
    /\ UNCHANGED writing
    /\ UNCHANGED <<blobVars, hubVars>>
    /\ UNCHANGED <<callerVars, watcherVars, reloadVars, loopVars,
                   watcherState, watchInode, fileInode, content, staleInode,
                   nextInode, observed>>

\* Events the loop can receive besides those of the writes, replacements
\* and removals above: events of the classes create and rename for the
\* watched path, events that name another path, and an event of two
\* classes at once.
OtherPath == <<"q">>

OtherEvents ==
    { [Op |-> {"Create"}, Name |-> <<"p">>],
      [Op |-> {"Rename"}, Name |-> <<"p">>],
      [Op |-> {"Write"}, Name |-> OtherPath],
      [Op |-> {"Remove"}, Name |-> OtherPath],
      [Op |-> {"Write", "Chmod"}, Name |-> <<"p">>] }

\* Number of events that can wait on watcher.Events when one of these is
\* delivered.
MaxQueued == 1

\* fsnotify sends e on watcher.Events of a watcher that Start has
\* registered the path on.
DeliverEvent(e) ==
    /\ resolver = "file"
    /\ startErr = "nil"
    /\ watcherState = "open"
    /\ Len(events) < MaxQueued
    /\ events' = Append(events, e)
    /\ UNCHANGED <<blobVars, hubVars>>
    /\ UNCHANGED <<callerVars, watcherVars, reloadVars, loopVars,
                   watcherState, watchInode, fsVars, observed>>

----------------------------------------------------------------------------
\* The state after nothing has been constructed; the file may be there or
\* not, with any content.

CallerInit ==
    /\ inlineValue = <<>>
    /\ filePath = <<>>
    /\ hasOnChange = FALSE
    /\ resolver = "none"
    /\ newErr = "unset"
    /\ callerPc = "new"
    /\ startErr = "unset"
    /\ shutdowns = 0

WatcherInit ==
    /\ value = <<>>
    /\ shutdownCH = "nil"
    /\ doneCH = "nil"
    /\ onChangeCalls = 0
    /\ onChangeArg = <<>>
    /\ rstep = [t \in Threads |-> "idle"]
    /\ data = [t \in Threads |-> <<>>]
    /\ fd = [t \in Threads |-> <<>>]
    /\ preValue = [t \in Threads |-> <<>>]
    /\ observed = <<>>
    /\ loopPc = "none"
    /\ ev = NoEvent
    /\ ctxDone = FALSE
    /\ watcherState = "none"
    /\ watchInode = 0
    /\ events = <<>>

FsInit ==
    /\ \/ /\ fileInode = 1
          /\ content \in Contents
          /\ readable \in BOOLEAN
       \/ /\ fileInode = 0
          /\ content = <<>>
          /\ readable = TRUE
    /\ staleInode = 0
    /\ nextInode = 2
    /\ fsVer = 0
    /\ lastOp = "none"
    /\ opWatched = FALSE
    /\ writing = <<>>
    /\ oldContent = <<>>

\* The two branches of processContainers, logs and traces.  The containers
\* of the storage account carry the same two names, so that a branch can be
\* given no container, its own, or the one of the other branch.
Containers == {"logs", "traces"}

\* No blobEventHandler is in use next to the resolver.
BlobUnused ==
    /\ containerName = [c \in Containers |-> ""]
    /\ hasConsumer = [c \in Containers |-> FALSE]
    /\ blobCount = [c \in Containers |-> 0]
    /\ cancelFunc = "nil"
    /\ blobCtxDone = FALSE
    /\ wg = 0
    /\ pollPc = "none"
    /\ passPc = "idle"
    /\ contPc = "idle"
    /\ contArg = ""
    /\ todo = <<>>
    /\ ticks = 0
    /\ closePc = "idle"
    /\ listed = <<>>
    /\ reads = <<>>
    /\ consumed = <<>>

\* An eventHubEventHandler as newEventHubEventHandler leaves it: no hub,
\* no cancel function, wait group at zero, nothing running.
Partitions == 1..MaxPartitions

\* Events a partition delivers, by what newMessageHandler looks at: the
\* body (not JSON, an empty array, an array of event data), whether the
\* subject of the first element has "containers/" and "blobs/" in it, the
\* container it names and the event type.
HubEvent(body, hasC, hasB, container, eventType) ==
    [body |-> body, hasContainers |-> hasC, hasBlobs |-> hasB,
     container |-> container, eventType |-> eventType]

HubEvents ==
    { HubEvent("invalid", FALSE, FALSE, "", ""),
      HubEvent("empty", FALSE, FALSE, "", ""),
      HubEvent("array", FALSE, TRUE, "", "Microsoft.Storage.BlobCreated"),
      HubEvent("array", TRUE, FALSE, "logs", "Microsoft.Storage.BlobCreated"),
      HubEvent("array", TRUE, TRUE, "logs", "Microsoft.Storage.BlobCreated"),
      HubEvent("array", TRUE, TRUE, "traces", "Microsoft.Storage.BlobCreated"),
      HubEvent("array", TRUE, TRUE, "other", "Microsoft.Storage.BlobCreated"),
      HubEvent("array", TRUE, TRUE, "logs", "Microsoft.Storage.BlobDeleted") }

\* Results of one call of pc.ReceiveEvents: no event or one.
Batches == {<<>>} \cup {<<e>> : e \in HubEvents}

HubInit ==
    /\ hub = "nil"
    /\ hubCancelFunc = "nil"
    /\ hubCtxDone = FALSE
    /\ hubWg = 0
    /\ partitionIDs = 0
    /\ runPc = "idle"
    /\ runErr = "unset"
    /\ runs = 0
    /\ partIdx = 0
    /\ receivers = [i \in Partitions |-> "none"]
    /\ polls = [i \in Partitions |-> 0]
    /\ pending = [i \in Partitions |-> <<>>]
    /\ outcome = [i \in Partitions |-> "none"]
    /\ hubHasConsumer = [c \in Containers |-> FALSE]
    /\ hubClosePc = "idle"
    /\ hubCloseErr = "unset"

Init == CallerInit /\ WatcherInit /\ FsInit /\ BlobUnused /\ HubInit

Reload ==
    \E t \in Threads :
        ReloadRead(t) \/ ReloadMore(t) \/ ReloadStore(t) \/ ReloadCallback(t)

Construct == \E call \in Calls : NewValueResolver(call[1], call[2], call[3])

Static == StaticStart \/ StaticShutdown

Start == StartBegin \/ (\E ok \in BOOLEAN : StartNewWatcher(ok)) \/ StartSpawn \/ StartAdd

Shutdown == ShutdownBegin \/ ShutdownWait

Loop ==
    \/ LoopSelectShutdown
    \/ LoopSelectCtx
    \/ LoopSelectEvent
    \/ \E keep \in 0..Len(events) : LoopRemove(keep)
    \/ LoopAdd
    \/ LoopCheckWrite
    \/ LoopClose
    \/ LoopDone

Fs ==
    \/ \E c \in Contents : FsOverwriteBegin(c) \/ FsReplace(c) \/ FsSymlinkSwap(c)
    \/ FsOverwriteEnd
    \/ FsRemoveStale
    \/ FsDelete
    \/ FsChmod

Next ==
    \/ Construct
    \/ Static
    \/ Start
    \/ Shutdown
    \/ Reload
    \/ Loop
    \/ CancelCtx
    \/ ReadValue
    \/ Fs

Spec == Init /\ [][Next]_vars

----------------------------------------------------------------------------
\* The watcher alone, from the state NewValueResolver("", path, logger)
\* leaves, with the watch goroutine scheduled fairly: a goroutine that can
\* take a step eventually takes one.

InitLive ==
    /\ inlineValue = <<>>
    /\ filePath = <<"p">>
    /\ hasOnChange = FALSE
    /\ resolver = "file"
    /\ newErr = "nil"
    /\ callerPc = "constructed"
    /\ startErr = "unset"
    /\ shutdowns = 0
    /\ WatcherInit
    /\ FsInit
    /\ BlobUnused
    /\ HubInit

LoopProc ==
    \/ Loop
    \/ ReloadRead("loop")
    \/ ReloadMore("loop")
    \/ ReloadStore("loop")
    \/ ReloadCallback("loop")

NextLive ==
    \/ Start
    \/ Shutdown
    \/ Reload
    \/ Loop
    \/ CancelCtx
    \/ Fs

SpecLive == InitLive /\ [][NextLive]_vars /\ WF_vars(LoopProc)

----------------------------------------------------------------------------
\* Properties of the resolver and of the watcher that hold in every state.

\* A reload of thread t is in flight.
InFlight(t) == rstep[t] # "idle"

\* The string a *string stands for when read by Value().
Deref(ptr) == IF ptr = <<>> THEN <<>> ELSE ptr[1]

\* C1: once a reload has succeeded the published value is never cleared and
\* never empty again, and the published value changes only in the store step
\* of a reload that succeeds; every other step, a failed reload included,
\* leaves it as it was.
C1_FailedReloadKeepsValue ==
    [][ /\ (value # <<>> => value' # <<>> /\ value'[1] # <<>>)
        /\ (value' # value =>
              \E t \in Threads : rstep[t] = "store" /\ rstep'[t] = "cb")
        /\ \A t \in Threads :
              (InFlight(t) /\ rstep'[t] = "idle" /\ rstep[t] # "cb")
                  => value' = value ]_vars

\* The watched file was deleted, the events were consumed, the reloads
\* failed and the value loaded before is still published.
C1_Witness ==
    /\ value # <<>>
    /\ lastOp = "delete"
    /\ opWatched
    /\ fileInode = 0
    /\ loopPc = "select"
    /\ events = <<>>

\* C5: whenever Shutdown has returned, no watch loop is running: a loop that
\* was spawned has exited, its done channel is closed and the fsnotify
\* watcher is closed.
C5_ShutdownWaitsForLoop ==
    (resolver = "file" /\ shutdowns > 0) =>
        /\ loopPc \in {"none", "exited"}
        /\ loopPc = "exited" => (doneCH = "closed" /\ watcherState = "closed")

C5_Witness ==
    /\ shutdowns > 0
    /\ startErr = "nil"
    /\ loopPc = "exited"
    /\ ~ctxDone

\* C6: a Value() call made while a reload is in flight returns the value
\* published before the reload or the value the reload has stored, never
\* the empty string once a value was published; and Value() can always be
\* called.
C6_ReadersSeeOldOrNew ==
    /\ resolver # "none" => ENABLED ReadValue
    /\ \A t \in Threads :
         (InFlight(t) /\ observed # <<>>) =>
            /\ \/ observed[1] = Deref(preValue[t])
               \/ rstep[t] = "cb" /\ observed[1] = TrimSpace(data[t][1])
            /\ preValue[t] # <<>> => observed[1] # <<>>

\* A reader saw the new value while the reload that stored it was still
\* running its callback step.
C6_Witness ==
    /\ rstep["loop"] = "cb"
    /\ observed # <<>>
    /\ preValue["loop"] # <<>>
    /\ observed[1] # preValue["loop"][1]

\* C7: with a non-empty filePath the resolver is a fileWatcher whatever the
\* inline value is, and after a successful Start on a file nobody has
\* touched since, Value() is the trimmed content of the file.
C7_FilePreferredOverInline ==
    /\ (callerPc # "new" /\ filePath # <<>>) => resolver = "file"
    /\ (resolver = "file" /\ startErr = "nil" /\ fsVer = 0) =>
          Value = TrimSpace(content)

C7_Witness ==
    /\ resolver = "file"
    /\ inlineValue # <<>>
    /\ startErr = "nil"
    /\ fsVer = 0
    /\ Value = <<"b", " ", "c">>

\* C8: NewValueResolver returns errNoValueProvided, and no resolver, exactly
\* when inlineValue and filePath are both empty.
C8_ErrorIffBothEmpty ==
    callerPc # "new" =>
        /\ newErr = "errNoValueProvided" <=> (inlineValue = <<>> /\ filePath = <<>>)
        /\ newErr = "errNoValueProvided" <=> resolver = "none"

C8_Witness ==
    /\ callerPc = "configError"
    /\ newErr = "errNoValueProvided"

\* C9: when the read of the initial load fails, or the content is empty
\* after trimming, Start returns the load error; and after that return no
\* value is published, onChange was not invoked, no fsnotify watcher exists,
\* no watch is registered and no loop was spawned.
C9_StartFailsOnInitialLoad ==
    /\ [](startErr = "load" =>
            /\ value = <<>>
            /\ Value = <<>>
            /\ onChangeCalls = 0
            /\ watcherState = "none"
            /\ watchInode = 0
            /\ loopPc = "none"
            /\ shutdownCH = "nil"
            /\ doneCH = "nil")
    /\ [][ /\ (rstep["start"] = "read" /\ rstep'["start"] # "read"
                  /\ (fileInode = 0 \/ ~readable))
              => (startErr' = "load" /\ callerPc' = "startFailed")
           /\ (rstep["start"] = "store" /\ rstep'["start"] # "store"
                  /\ TrimSpace(data["start"][1]) = <<>>)
              => (startErr' = "load" /\ callerPc' = "startFailed") ]_vars

\* Start failed on a file that is there and readable but holds white space
\* only.
C9_Witness ==
    /\ startErr = "load"
    /\ hasOnChange
    /\ fsVer = 0
    /\ fileInode # 0
    /\ readable
    /\ content # <<>>

\* C10: every published value is non-empty, has no white space at either
\* end, and is the trimmed form of a content the file has held: the watcher
\* publishes no value the file did not contain.
C10_PublishedIsTrimmedContent ==
    value # <<>> =>
        /\ value[1] # <<>>
        /\ ~IsSpace(Head(value[1]))
        /\ ~IsSpace(value[1][Len(value[1])])
        /\ \E c \in Contents : value[1] = TrimSpace(c)

----------------------------------------------------------------------------
\* Propagation of changes of the file, under SpecLive.

\* Start has returned nil, neither Shutdown nor cancellation was requested,
\* and the n-th file-system operation, of the given kind, was made on the
\* inode that carried the watch and left readable, non-blank content.
Changed(kind, n) ==
    /\ startErr = "nil"
    /\ shutdownCH = "open"
    /\ ~ctxDone
    /\ fsVer = n
    /\ lastOp = kind
    /\ opWatched
    /\ fileInode # 0
    /\ readable
    /\ TrimSpace(content) # <<>>

\* The change is published, unless the file was changed again or the
\* watcher was told to stop.
Published == value = <<TrimSpace(content)>>

Overtaken(n) == fsVer # n \/ writing # <<>> \/ shutdownCH # "open" \/ ctxDone

\* C2: after Start has succeeded, from the beginning of an overwrite in
\* place of the watched file until the next operation on the file, Value()
\* is the old content or the new content, both trimmed, and nothing else:
\* no torn value is observable.
C2_OldOrNewDuringOverwrite ==
    oldContent # <<>> =>
        Value \in { TrimSpace(oldContent[1]),
                    TrimSpace(IF writing # <<>> THEN writing[1] ELSE content) }

\* C3: after Start has succeeded, once the symbolic link was repointed and
\* the previous target, which carried the watch, was removed, the watch is
\* eventually registered on the inode the path resolves to now and the new
\* content is published.
C3_SymlinkRotationPropagates ==
    \A n \in 1..MaxFsOps :
        Changed("removeOld", n) ~>
            ((Published /\ watchInode = fileInode) \/ Overtaken(n))

C3_Witness ==
    /\ lastOp = "removeOld"
    /\ opWatched
    /\ fsVer = 2
    /\ watchInode = fileInode
    /\ fileInode = 2
    /\ value = <<TrimSpace(content)>>
    /\ shutdownCH = "open"
    /\ loopPc = "select"
    /\ events = <<>>

\* C4: after Start has succeeded, a rename of a sibling file with non-blank
\* content over the watched path is eventually published in trimmed form.
C4_AtomicReplacePropagates ==
    \A n \in 1..MaxFsOps :
        Changed("replace", n) ~> (Published \/ Overtaken(n))

C4_Witness ==
    /\ lastOp = "replace"
    /\ opWatched
    /\ fsVer = 1
    /\ fileInode = 2
    /\ content = <<"U+000B", "a", "\n">>
    /\ value = << <<"a">> >>
    /\ shutdownCH = "open"
    /\ loopPc = "select"
    /\ events = <<>>

----------------------------------------------------------------------------
\* The static resolver and the lifecycle of the watcher, under Spec.

\* C11: a resolver built from a non-empty inlineValue and an empty filePath
\* is a static value: Value() is inlineValue in every state, Start and
\* Shutdown return nil from any position of the owner, and no step changes
\* the value, a watcher field, the loop, the fsnotify watcher or the file.
C11_StaticIsInert ==
    /\ [](resolver = "static" =>
            /\ inlineValue # <<>>
            /\ filePath = <<>>
            /\ Value = inlineValue
            /\ startErr \in {"unset", "nil"}
            /\ callerPc \in {"constructed", "started", "stopped"}
            /\ (callerPc = "started" => startErr = "nil"))
    /\ [][resolver = "static" =>
            UNCHANGED <<inlineValue, filePath, resolver, watcherVars,
                        reloadVars, loopVars, notifyVars, fsVars>>]_vars

\* Start was called again after a Shutdown of the static value.
C11_Witness ==
    /\ resolver = "static"
    /\ callerPc = "started"
    /\ shutdowns = 1
    /\ Value = <<"a">>

\* C12: once a Shutdown of the fileWatcher has returned, no step changes the
\* published value and onChange is not invoked again, whatever is done to
\* the file afterwards.
C12_FrozenAfterShutdown ==
    [][(resolver = "file" /\ shutdowns > 0) =>
          /\ value' = value
          /\ onChangeCalls' = onChangeCalls]_vars

\* Shutdown has returned from a started watcher whose loop has exited, and
\* the file was then replaced by one with other content: the value loaded
\* before is still published.
C12_Witness ==
    /\ resolver = "file"
    /\ startErr = "nil"
    /\ shutdowns > 0
    /\ loopPc = "exited"
    /\ lastOp = "replace"
    /\ ~opWatched
    /\ readable
    /\ TrimSpace(content) # <<>>
    /\ value # <<>>
    /\ value # <<TrimSpace(content)>>

\* C13: Shutdown is safe from every position of the owner.  It never closes
\* a closed channel, and where the watcher was never started, where Start
\* failed at the initial load, and after a Shutdown that has returned, the
\* field shutdownCH is nil, so that Shutdown returns nil without closing
\* anything and without waiting.
C13_ShutdownAlwaysSafe ==
    /\ callerPc # "panic"
    /\ (/\ resolver = "file"
        /\ \/ callerPc \in {"constructed", "stopped"}
           \/ callerPc = "startFailed" /\ startErr \in {"load", "newWatcher"})
       => shutdownCH = "nil"

\* A second Shutdown has returned after the Shutdown that stopped a started
\* watcher.
C13_Witness ==
    /\ resolver = "file"
    /\ startErr = "nil"
    /\ callerPc = "stopped"
    /\ shutdowns = 2
    /\ loopPc = "exited"
    /\ doneCH = "closed"

\* C14: NewValueResolver reads no file and starts nothing.  The call leaves
\* every watcher field, the loop, the fsnotify watcher and the file as they
\* were; with a non-empty filePath it returns a fileWatcher and a nil error
\* whether or not the file is there; and until Start is called Value() is
\* the empty string, no loop runs and no fsnotify watcher exists.
C14_ConstructorTouchesNothing ==
    /\ [](callerPc = "constructed" /\ resolver = "file" =>
            /\ newErr = "nil"
            /\ Value = <<>>
            /\ startErr = "unset"
            /\ loopPc = "none"
            /\ watcherState = "none"
            /\ shutdownCH = "nil"
            /\ doneCH = "nil"
            /\ onChangeCalls = 0
            /\ \A t \in Threads : rstep[t] = "idle")
    /\ [][callerPc = "new" =>
            /\ (filePath' # <<>> => resolver' = "file" /\ newErr' = "nil")
            /\ UNCHANGED <<watcherVars, reloadVars, loopVars, notifyVars,
                           fsVars>>]_vars

\* A fileWatcher was constructed for a path that resolves to no file.
C14_Witness ==
    /\ callerPc = "constructed"
    /\ resolver = "file"
    /\ newErr = "nil"
    /\ fileInode = 0

\* C15: onChange is invoked once for every reload that succeeds, that of
\* Start and those of the loop alike, and for nothing else.  The count of
\* invocations moves only in the callback step of a reload, by one, with
\* the value that reload has stored as argument, and at that moment Value()
\* is that argument; a reload that returns an error invokes nothing; and a
\* static value never invokes anything.
C15_OnChangeOncePerSuccess ==
    /\ [](resolver = "static" => onChangeCalls = 0)
    /\ [](~hasOnChange => onChangeCalls = 0)
    /\ [][ /\ (onChangeCalls' # onChangeCalls =>
                /\ onChangeCalls' = onChangeCalls + 1
                /\ \E t \in Threads :
                      /\ rstep[t] = "cb" /\ rstep'[t] = "idle"
                      /\ onChangeArg' = <<TrimSpace(data[t][1])>>
                /\ onChangeArg' = <<Value>>
                /\ Value' = Value)
           /\ \A t \in Threads :
                (hasOnChange /\ rstep[t] = "cb" /\ rstep'[t] # "cb")
                    => onChangeCalls' = onChangeCalls + 1
           /\ \A t \in Threads :
                (rstep[t] \in {"read", "store"} /\ rstep'[t] = "idle")
                    => onChangeCalls' = onChangeCalls ]_vars

\* The callback has run for the initial load and for one reload of the
\* loop that published another value.
C15_Witness ==
    /\ hasOnChange
    /\ onChangeCalls = 2
    /\ onChangeArg = << <<"b">> >>
    /\ value = << <<"b">> >>
    /\ \A t \in Threads : rstep[t] = "idle"

----------------------------------------------------------------------------
\* Recovery of the loop, under SpecLive.

\* Start has returned nil, nothing asked the watcher to stop, an event is
\* waiting on watcher.Events and the file, after n operations, is readable
\* with non-blank content.
EventPending(n) ==
    /\ startErr = "nil"
    /\ shutdownCH = "open"
    /\ ~ctxDone
    /\ fsVer = n
    /\ writing = <<>>
    /\ events # <<>>
    /\ fileInode # 0
    /\ readable
    /\ TrimSpace(content) # <<>>

\* C16: no failure stops the watcher once it runs.  A reload of the loop,
\* failed or not, returns into the loop; the loop leaves its select only
\* when Shutdown closed shutdownCH or the context is done; and an event
\* that finds the file readable with non-blank content leads to that
\* content being published.
C16_LoopSurvivesFailedReload ==
    /\ [][(InFlight("loop") /\ rstep'["loop"] = "idle") =>
             loopPc' \in {"checkWrite", "select"}]_vars
    /\ [][(loopPc \notin {"none", "closing", "closed", "exited"}
             /\ loopPc' \in {"closing", "closed", "exited"}) =>
             (shutdownCH = "closed" \/ ctxDone)]_vars
    /\ \A n \in 1..MaxFsOps :
          EventPending(n) ~> (Published \/ Overtaken(n))

\* The first operation on the file emptied it, the loop consumed the write
\* event, its reload found nothing to publish, and the loop is back at its
\* select with the value loaded by Start still published.
C16_Witness ==
    /\ startErr = "nil"
    /\ fsVer = 1
    /\ lastOp = "truncate"
    /\ opWatched
    /\ events = <<>>
    /\ loopPc = "select"
    /\ rstep["loop"] = "idle"
    /\ shutdownCH = "open"
    /\ ~ctxDone
    /\ value # <<>>

----------------------------------------------------------------------------
\* The order of the steps of Start.

\* C17: an error returned by Start arises before the background loop runs:
\* whenever Start has returned an error, from the initial load, from
\* fsnotify.NewWatcher or from watcher.Add, no loop goroutine is running.
C17_StartErrorMeansNoLoop ==
    startErr \in {"load", "newWatcher", "add"} => loopPc = "none"

----------------------------------------------------------------------------
\* The watcher against a file that is only ever written in place, replaced
\* by rename or rotated through its symbolic link, all of it after Start
\* has begun; the file is there and readable when Start begins.

InitRotate ==
    /\ InitLive
    /\ fileInode = 1
    /\ readable

FsRotate ==
    /\ callerPc # "constructed"
    /\ \/ \E c \in Contents :
             FsOverwriteBegin(c) \/ FsReplace(c) \/ FsSymlinkSwap(c)
       \/ FsOverwriteEnd
       \/ FsRemoveStale

NextRotate ==
    \/ Start
    \/ Shutdown
    \/ Reload
    \/ Loop
    \/ CancelCtx
    \/ FsRotate

SpecRotate == InitRotate /\ [][NextRotate]_vars /\ WF_vars(LoopProc)

\* Start has returned nil, nothing asked the watcher to stop, and after n
\* operations the file is at rest, readable, with non-blank content: no
\* write is in progress and no previous link target is left to remove.
Settled(n) ==
    /\ startErr = "nil"
    /\ shutdownCH = "open"
    /\ ~ctxDone
    /\ fsVer = n
    /\ writing = <<>>
    /\ staleInode = 0
    /\ fileInode # 0
    /\ readable
    /\ TrimSpace(content) # <<>>

\* C18: Value() is eventually consistent with the file: whatever writes,
\* replacements and rotations were made since Start began its initial load,
\* once the file is at rest with readable, non-blank content and the
\* watcher is not stopped, the trimmed content is eventually published.
C18_EventuallyConsistent ==
    \A n \in 0..MaxFsOps :
        Settled(n) ~> (Published \/ Overtaken(n))

----------------------------------------------------------------------------
\* blobEventHandler: run starts pollBlobs, which makes one pass of
\* processContainers at once and one more at every tick, until its context
\* is done; close cancels that context and waits for pollBlobs.

\* A handler as newBlobEventHandler and the two setters leave it, in front
\* of a blob client whose containers hold up to MaxBlobs blobs, named 1, 2,
\* ...; no resolver is in use next to it.  The two container names are any
\* two strings: either may be empty, and both may name the same container.
InitBlob ==
    /\ CallerInit
    /\ WatcherInit
    /\ FsInit
    /\ fileInode = 0
    /\ containerName \in [Containers -> {""} \cup Containers]
    /\ hasConsumer \in [Containers -> BOOLEAN]
    /\ blobCount \in [Containers -> 0..MaxBlobs]
    /\ cancelFunc = "nil"
    /\ blobCtxDone = FALSE
    /\ wg = 0
    /\ pollPc = "none"
    /\ passPc = "idle"
    /\ contPc = "idle"
    /\ contArg = ""
    /\ todo = <<>>
    /\ ticks = 0
    /\ closePc = "idle"
    /\ listed = <<>>
    /\ reads = <<>>
    /\ consumed = <<>>
    /\ HubInit

\* Entry into processContainers.
BeginPass ==
    /\ pollPc' = "pass"
    /\ passPc' = "logs"
    /\ contPc' = "idle"
    /\ contArg' = ""
    /\ todo' = <<>>
    /\ listed' = <<>>
    /\ reads' = <<>>
    /\ consumed' = <<>>

\* ctx, p.cancelFunc = context.WithCancel(ctx); p.wg.Add(1);
\* go p.pollBlobs(ctx); pollBlobs begins with p.processContainers(ctx).
BlobRun ==
    /\ closePc = "idle"
    /\ cancelFunc = "nil"
    /\ cancelFunc' = "set"
    /\ wg' = wg + 1
    /\ BeginPass
    /\ UNCHANGED <<fileVars, hubVars, containerName, hasConsumer, blobCount,
                   blobCtxDone, ticks, closePc>>

\* The container processContainers turns to after container c.
AfterContainer(c) == IF c = "logs" THEN "traces" ELSE "end"

\* Return of processContainer to processContainers.
ContainerReturn ==
    /\ contPc' = "idle"
    /\ contArg' = ""
    /\ todo' = <<>>
    /\ passPc' = AfterContainer(passPc)

\* if p.logsContainerName != "" && p.logsDataConsumer != nil {
\*     p.processContainer(ctx, p.logsContainerName, ...) }
\* and the same for traces.
ProcessContainers ==
    /\ pollPc = "pass"
    /\ passPc \in Containers
    /\ contPc = "idle"
    /\ IF containerName[passPc] # "" /\ hasConsumer[passPc]
       THEN /\ contPc' = "list"
            /\ contArg' = containerName[passPc]
            /\ UNCHANGED passPc
       ELSE /\ passPc' = AfterContainer(passPc)
            /\ UNCHANGED <<contPc, contArg>>
    /\ UNCHANGED <<fileVars, hubVars, containerName, hasConsumer, blobCount,
                   cancelFunc, blobCtxDone, wg, pollPc, todo, ticks, closePc,
                   listed, reads, consumed>>

\* blobs, err := p.blobClient.listBlobs(ctx, containerName); an error is
\* logged and ends processContainer.
ListBlobs(name) == [i \in 1..blobCount[name] |-> i]

ProcessContainerList(ok) ==
    /\ contPc = "list"
    /\ listed' = Append(listed, <<passPc, contArg, ok>>)
    /\ IF ok
       THEN /\ todo' = ListBlobs(contArg)
            /\ contPc' = "check"
            /\ UNCHANGED <<contArg, passPc>>
       ELSE ContainerReturn
    /\ UNCHANGED <<fileVars, hubVars, containerName, hasConsumer, blobCount,
                   cancelFunc, blobCtxDone, wg, pollPc, ticks, closePc, reads,
                   consumed>>

\* for _, blobName := range blobs { if ctx.Err() != nil { return } ...
ProcessContainerNext ==
    /\ contPc = "check"
    /\ IF todo = <<>> \/ blobCtxDone
       THEN ContainerReturn
       ELSE /\ contPc' = "read"
            /\ UNCHANGED <<contArg, todo, passPc>>
    /\ UNCHANGED <<fileVars, hubVars, containerName, hasConsumer, blobCount,
                   cancelFunc, blobCtxDone, wg, pollPc, ticks, closePc,
                   listed, reads, consumed>>

ProcessContainerRead_StopsOnError(ok) ==
    /\ contPc = "read"
    /\ reads' = Append(reads, <<passPc, contArg, Head(todo), ok>>)
    /\ IF ok
       THEN /\ contPc' = "consume"
            /\ UNCHANGED <<contArg, todo, passPc>>
       ELSE ContainerReturn
    /\ UNCHANGED <<fileVars, hubVars, containerName, hasConsumer, blobCount,
                   cancelFunc, blobCtxDone, wg, pollPc, ticks, closePc,
                   listed, consumed>>

\* blobData, err := p.blobClient.readBlob(ctx, containerName, blobName);
\* an error is logged and the loop continues with the next blob.
ProcessContainerRead(ok) ==
    /\ contPc = "read"
    /\ reads' = Append(reads, <<passPc, contArg, Head(todo), ok>>)
    /\ IF ok
       THEN /\ contPc' = "consume"
            /\ UNCHANGED todo
       ELSE /\ contPc' = "check"
            /\ todo' = Tail(todo)
    /\ UNCHANGED <<fileVars, hubVars, containerName, hasConsumer, blobCount,
                   cancelFunc, blobCtxDone, wg, pollPc, passPc, contArg,
                   ticks, closePc, listed>>
    /\ UNCHANGED consumed

\* The consumer the closure passed by processContainers calls: the one of
\* the branch that made the call.
ConsumerOf(branch) == branch

\* if err := consume(ctx, blobData.Bytes()); err != nil { log }
ProcessContainerConsume(ok) ==
    /\ contPc = "consume"
    /\ consumed' = Append(consumed,
                          <<ConsumerOf(passPc), contArg, Head(todo), ok>>)
    /\ contPc' = "check"
    /\ todo' = Tail(todo)
    /\ UNCHANGED <<fileVars, hubVars, containerName, hasConsumer, blobCount,
                   cancelFunc, blobCtxDone, wg, pollPc, passPc, contArg,
                   ticks, closePc, listed, reads>>

\* processContainers returns into the loop of pollBlobs.
ProcessContainersReturn ==
    /\ pollPc = "pass"
    /\ passPc = "end"
    /\ pollPc' = "select"
    /\ passPc' = "idle"
    /\ UNCHANGED <<fileVars, hubVars, containerName, hasConsumer, blobCount,
                   cancelFunc, blobCtxDone, wg, contPc, contArg, todo, ticks,
                   closePc, listed, reads, consumed>>

\* case <-ctx.Done(): return, with the deferred p.wg.Done()
PollBlobsDone ==
    /\ pollPc = "select"
    /\ blobCtxDone
    /\ pollPc' = "exited"
    /\ wg' = wg - 1
    /\ UNCHANGED <<fileVars, hubVars, containerName, hasConsumer, blobCount,
                   cancelFunc, blobCtxDone, passPc, contPc, contArg, todo,
                   ticks, closePc, listed, reads, consumed>>

\* case <-ticker.C: p.processContainers(ctx)
PollBlobsTick ==
    /\ pollPc = "select"
    /\ ticks < MaxTicks
    /\ ticks' = ticks + 1
    /\ BeginPass
    /\ UNCHANGED <<fileVars, hubVars, containerName, hasConsumer, blobCount,
                   cancelFunc, blobCtxDone, wg, closePc>>

\* if p.cancelFunc != nil { p.cancelFunc() }
BlobClose ==
    /\ closePc = "idle"
    /\ blobCtxDone' = (blobCtxDone \/ cancelFunc = "set")
    /\ closePc' = "wait"
    /\ UNCHANGED <<fileVars, hubVars, containerName, hasConsumer, blobCount,
                   cancelFunc, wg, pollPc, passPc, contPc, contArg, todo,
                   ticks, listed, reads, consumed>>

\* p.wg.Wait() returns once the counter is zero.
WgZero_NoWait == TRUE

WgZero == wg = 0

\* p.wg.Wait(); return nil
BlobCloseWait ==
    /\ closePc = "wait"
    /\ WgZero
    /\ closePc' = "returned"
    /\ UNCHANGED <<fileVars, hubVars, containerName, hasConsumer, blobCount,
                   cancelFunc, blobCtxDone, wg, pollPc, passPc, contPc,
                   contArg, todo, ticks, listed, reads, consumed>>

\* The context passed to run is cancelled by its owner.
BlobCancelParent ==
    /\ cancelFunc = "set"
    /\ ~blobCtxDone
    /\ blobCtxDone' = TRUE
    /\ UNCHANGED <<fileVars, hubVars, containerName, hasConsumer, blobCount,
                   cancelFunc, wg, pollPc, passPc, contPc, contArg, todo,
                   ticks, closePc, listed, reads, consumed>>

ProcessContainer ==
    \/ \E ok \in BOOLEAN : ProcessContainerList(ok)
    \/ ProcessContainerNext
    \/ \E ok \in BOOLEAN : ProcessContainerRead(ok)
    \/ \E ok \in BOOLEAN : ProcessContainerConsume(ok)

PollBlobs ==
    \/ ProcessContainers
    \/ ProcessContainer
    \/ ProcessContainersReturn
    \/ PollBlobsDone
    \/ PollBlobsTick

NextBlob ==
    \/ BlobRun
    \/ PollBlobs
    \/ BlobClose
    \/ BlobCloseWait
    \/ BlobCancelParent

SpecBlob == InitBlob /\ [][NextBlob]_vars

----------------------------------------------------------------------------
\* Properties of the blobEventHandler, under SpecBlob.

\* C19: close returns only after pollBlobs has exited.  Once close has
\* returned no goroutine of the handler is left, no pass of
\* processContainers is under way and none begins, and nothing more is
\* listed, read or consumed; a close that found a cancel function has
\* cancelled the context; and on a handler that was never run close finds
\* the wait group at zero, so that it returns at once.
C19_CloseWaitsForPoll ==
    /\ [](closePc = "returned" =>
            /\ pollPc \in {"none", "exited"}
            /\ passPc = "idle"
            /\ contPc = "idle"
            /\ wg = 0)
    /\ []((closePc # "idle" /\ cancelFunc = "set") => blobCtxDone)
    /\ []((closePc = "wait" /\ cancelFunc = "nil") =>
            (wg = 0 /\ pollPc = "none"))
    /\ [][closePc = "returned" =>
            UNCHANGED <<pollPc, passPc, contPc, listed, reads, consumed>>]_vars

\* close has returned from a handler whose goroutine had made a second
\* pass and read a blob in it.
C19_Witness ==
    /\ closePc = "returned"
    /\ cancelFunc = "set"
    /\ pollPc = "exited"
    /\ ticks = 1
    /\ reads # <<>>

\* processContainers calls processContainer in branch c.
Eligible(c) == containerName[c] # "" /\ hasConsumer[c]

\* The calls of listBlobs branch c made in the latest pass, and whether one
\* of them succeeded.
ListedBy(c) == {i \in 1..Len(listed) : listed[i][1] = c}

ListedOk(c) == \E i \in ListedBy(c) : listed[i][3]

\* Numbers of calls, in the latest pass, of readBlob by branch c for blob b
\* and of consumer k with the data of blob b.
ReadCount(c, b) ==
    Cardinality({i \in 1..Len(reads) : reads[i][1] = c /\ reads[i][3] = b})

ConsumeCount(k, b) ==
    Cardinality({i \in 1..Len(consumed) :
                    consumed[i][1] = k /\ consumed[i][3] = b})

ReadOk(c, b) ==
    \E i \in 1..Len(reads) :
        reads[i][1] = c /\ reads[i][3] = b /\ reads[i][4]

\* The same numbers for the container named n, whatever branch made the
\* call.
ContainerReadCount(n, b) ==
    Cardinality({i \in 1..Len(reads) : reads[i][2] = n /\ reads[i][3] = b})

ContainerConsumeCount(n, b) ==
    Cardinality({i \in 1..Len(consumed) :
                    consumed[i][2] = n /\ consumed[i][3] = b})

\* What holds of the calls of a pass at any moment.  listBlobs is called
\* only by a branch with a container name and a consumer, for the container
\* of that branch, once.  A branch reads blobs only after its listing
\* succeeded, from its container, among those listed and in their order,
\* each at most once.  A consumer is called only with data its own branch
\* read from the container of that branch, at most once for a blob.
PassCallsAreRouted ==
    /\ \A i \in 1..Len(listed) :
          /\ Eligible(listed[i][1])
          /\ listed[i][2] = containerName[listed[i][1]]
          /\ \A j \in 1..Len(listed) : listed[j][1] = listed[i][1] => j = i
    /\ ((\A c \in Containers : ~hasConsumer[c]) => listed = <<>>)
    /\ \A i \in 1..Len(reads) :
          /\ ListedOk(reads[i][1])
          /\ reads[i][2] = containerName[reads[i][1]]
          /\ reads[i][3] \in 1..blobCount[reads[i][2]]
          /\ ReadCount(reads[i][1], reads[i][3]) = 1
          /\ reads[i][3] > 1 =>
                \E j \in 1..(i - 1) : /\ reads[j][1] = reads[i][1]
                                      /\ reads[j][3] = reads[i][3] - 1
    /\ \A i \in 1..Len(consumed) :
          /\ consumed[i][1] \in Containers
          /\ consumed[i][2] = containerName[consumed[i][1]]
          /\ ReadOk(consumed[i][1], consumed[i][3])
          /\ ConsumeCount(consumed[i][1], consumed[i][3]) = 1

\* The latest pass of processContainers is done with branch c.
DoneWith(c) ==
    \/ pollPc \in {"select", "exited"}
    \/ pollPc = "pass" /\ passPc = "end"
    \/ pollPc = "pass" /\ passPc = "traces" /\ c = "logs"

\* Branch c holds the data of blob b and is about to call its consumer.
AboutToConsume(c, b) ==
    pollPc = "pass" /\ passPc = c /\ contPc = "consume" /\ Head(todo) = b

\* The data of every blob a branch read went to the consumer of that
\* branch exactly once, whether or not the context is done; the one
\* exception is the blob whose data the branch holds at this moment.
ReadIsConsumed ==
    \A c \in Containers :
        \A b \in 1..MaxBlobs :
            ReadOk(c, b) => (ConsumeCount(c, b) = 1 \/ AboutToConsume(c, b))

\* Every branch with a container name and a consumer that the pass is done
\* with listed its container; and if the listing succeeded and the context
\* is not done, the branch read every blob listed.
PassIsComplete ==
    \A c \in Containers :
        (Eligible(c) /\ DoneWith(c)) =>
            /\ ListedBy(c) # {}
            /\ (ListedOk(c) /\ ~blobCtxDone) =>
                  \A b \in 1..blobCount[containerName[c]] : ReadCount(c, b) = 1

\* The steps of a pass.  The range loop goes on to readBlob only from its
\* test of the context, with the context not done and a blob left; when
\* the test finds the context done, processContainer returns with nothing
\* read and nothing consumed; a blob is read only by the call of readBlob
\* and data is consumed only by the call of the consumer that follows a
\* read that succeeded.
PassSteps ==
    /\ (contPc' = "read" /\ contPc # "read") =>
          (contPc = "check" /\ ~blobCtxDone /\ todo # <<>>)
    /\ (pollPc = "pass" /\ contPc = "check" /\ blobCtxDone
          /\ contPc' # "check") =>
          /\ contPc' = "idle"
          /\ passPc' = AfterContainer(passPc)
          /\ todo' = <<>>
          /\ UNCHANGED <<listed, reads, consumed>>
    /\ (reads' # reads /\ reads' # <<>>) =>
          /\ contPc = "read"
          /\ \E ok \in BOOLEAN :
                reads' = Append(reads, <<passPc, contArg, Head(todo), ok>>)
    /\ (consumed' # consumed /\ consumed' # <<>>) =>
          /\ contPc = "consume"
          /\ reads[Len(reads)] = <<passPc, contArg, Head(todo), TRUE>>
          /\ \E ok \in BOOLEAN :
                consumed' =
                    Append(consumed, <<passPc, contArg, Head(todo), ok>>)

\* C20 as stated: in every pass of processContainers a container is listed
\* only for a branch with a name and a consumer, and when processContainers
\* is done with a listed container every blob of it was read exactly once
\* and its data passed exactly once, to the consumer of that container,
\* whatever failed on the way.
C20_EveryBlobProcessed ==
    /\ \A i \in 1..Len(listed) : Eligible(listed[i][1])
    /\ ((\A c \in Containers : ~hasConsumer[c]) => listed = <<>>)
    /\ \A c \in Containers :
          (Eligible(c) /\ DoneWith(c)) =>
              /\ ListedBy(c) # {}
              /\ ListedOk(c) =>
                    \A b \in 1..blobCount[containerName[c]] :
                        /\ ContainerReadCount(containerName[c], b) = 1
                        /\ ReadOk(c, b) =>
                              /\ ConsumeCount(c, b) = 1
                              /\ ContainerConsumeCount(containerName[c], b) = 1

\* C20, amended: the statement holds of each branch of processContainers,
\* not of each container, and of the blobs reached before the context is
\* done.  The calls of a pass are always routed as PassCallsAreRouted
\* says, so that a container that both branches name is listed, read and
\* consumed once by each; the data of every blob a branch read is consumed
\* exactly once by the consumer of that branch, also after the context is
\* done; a branch the pass is done with has listed its container and,
\* when the context is not done, has read every blob listed, whatever
\* reads and consumer calls failed on the way; and once the context is
\* done at the test that begins an iteration, processContainer returns and
\* the blobs not yet reached are neither read nor consumed.
C20_BlobsProcessedUntilCancelled ==
    /\ [](PassCallsAreRouted /\ ReadIsConsumed /\ PassIsComplete)
    /\ [][PassSteps]_vars

\* Both branches name the container "logs", which holds two blobs.  In the
\* logs branch the read of the first blob failed and the consumer failed on
\* the second; the traces branch listed the same container again and read
\* and consumed the first blob; the context was then cancelled, and the
\* pass has ended with the second blob not read by the traces branch.
C20_Witness ==
    /\ pollPc = "pass"
    /\ passPc = "end"
    /\ blobCtxDone
    /\ containerName = [c \in Containers |-> "logs"]
    /\ blobCount["logs"] = 2
    /\ listed = << <<"logs", "logs", TRUE>>, <<"traces", "logs", TRUE>> >>
    /\ reads = << <<"logs", "logs", 1, FALSE>>, <<"logs", "logs", 2, TRUE>>,
                  <<"traces", "logs", 1, TRUE>> >>
    /\ consumed = << <<"logs", "logs", 2, FALSE>>,
                     <<"traces", "logs", 1, TRUE>> >>

----------------------------------------------------------------------------
\* The handling of one event by the loop.

\* C21: on a remove or chmod event the loop removes the registration, then
\* registers the path again, then reloads, in that order: the position
\* after the removal is the registration, the registration puts the watch
\* on the inode the path resolves to whenever that can be done, and the
\* reload begins in the same step, its read coming later.  So whenever the
\* bytes read by that reload are no longer the content of the file, the
\* change is not lost: an event is waiting, or the watch is on the previous
\* link target, whose removal will raise one.
C21_RemoveAddReload ==
    /\ [][loopPc = "remove" => loopPc' \in {"remove", "add"}]_vars
    /\ [][(loopPc = "add" /\ loopPc' # "add") =>
            /\ loopPc' = "reload1"
            /\ rstep["loop"] = "idle" /\ rstep'["loop"] = "read"
            /\ ((watcherState = "open" /\ fileInode # 0 /\ readable)
                  => watchInode' = fileInode)]_vars
    /\ [][loopPc' = "reload1" => loopPc \in {"add", "reload1"}]_vars
    /\ []((/\ loopPc = "reload1"
            /\ rstep["loop"] \in {"store", "cb"}
            /\ data["loop"] # <<content>>)
           => \/ events # <<>>
              \/ staleInode # 0 /\ watchInode = staleInode)

\* The file was replaced, the loop registered the path again and read the
\* new file, and the file was then overwritten: the write event of the new
\* registration is waiting.
C21_Witness ==
    /\ loopPc = "reload1"
    /\ rstep["loop"] = "store"
    /\ fsVer = 2
    /\ lastOp = "write"
    /\ opWatched
    /\ fileInode = 2
    /\ watchInode = 2
    /\ data["loop"] # <<content>>
    /\ events # <<>>

\* Start has returned nil, nothing asked the watcher to stop, the path
\* carries no watch, the file, after n operations, is readable with
\* non-blank content, and a remove or chmod event is still waiting.
DarkWithEvent(n) ==
    /\ startErr = "nil"
    /\ shutdownCH = "open"
    /\ ~ctxDone
    /\ fsVer = n
    /\ writing = <<>>
    /\ fileInode # 0
    /\ readable
    /\ TrimSpace(content) # <<>>
    /\ watchInode # fileInode
    /\ \E i \in 1..Len(events) : events[i].Op \cap {"Remove", "Chmod"} # {}

\* C22: a registration that fails after a remove or chmod event is not
\* fatal.  The step in which watcher.Add fails leaves the value, the
\* channels and the registration as they were and goes on into the reload;
\* that reload keeps the value or replaces it by what it has read; and a
\* remove or chmod event handled later registers the path again, after
\* which the content of the file is published.
C22_RewatchFailureNotFatal ==
    /\ [][(/\ loopPc = "add" /\ loopPc' # "add"
            /\ ~(watcherState = "open" /\ fileInode # 0 /\ readable)) =>
              /\ loopPc' = "reload1"
              /\ rstep'["loop"] = "read"
              /\ UNCHANGED <<value, shutdownCH, doneCH, watchInode,
                             watcherState>>]_vars
    /\ [][(loopPc = "reload1" /\ value' # value) =>
              /\ rstep["loop"] = "store"
              /\ value' = <<TrimSpace(data["loop"][1])>>]_vars
    /\ \A n \in 1..MaxFsOps :
          DarkWithEvent(n) ~>
              ((Published /\ watchInode = fileInode) \/ Overtaken(n))

\* The file was deleted before the loop reached watcher.Add: the
\* registration failed, no event is left, and the loop is in the reload
\* that follows, with the value loaded before still published.
C22_Witness ==
    /\ startErr = "nil"
    /\ loopPc = "reload1"
    /\ rstep["loop"] = "read"
    /\ lastOp = "delete"
    /\ fileInode = 0
    /\ watchInode = 0
    /\ events = <<>>
    /\ shutdownCH = "open"
    /\ value # <<>>

----------------------------------------------------------------------------
\* The watcher when fsnotify also delivers events of other classes and
\* events that name other paths.

InitEvents ==
    /\ InitRotate
    /\ content = <<"a">>

\* After Start has returned, the file is rewritten in place or replaced.
FsEdit ==
    /\ callerPc = "started"
    /\ \/ FsOverwriteBegin(<<"b">>)
       \/ FsReplace(<<"b">>)
       \/ FsOverwriteEnd

NextEvents ==
    \/ Start
    \/ Shutdown
    \/ Reload
    \/ Loop
    \/ CancelCtx
    \/ FsEdit
    \/ \E e \in OtherEvents : DeliverEvent(e)

SpecEvents == InitEvents /\ [][NextEvents]_vars

----------------------------------------------------------------------------
\* C23: an event whose path is not the watched path is ignored by the watch
\* loop: while the loop handles such an event it has not called
\* watcher.Remove, does not call watcher.Add and runs no reload.
C23_ForeignEventsIgnored ==
    (ev # NoEvent /\ ev.Name # filePath)
        => /\ loopPc \notin {"add", "reload1", "reload2"}
           /\ rstep["loop"] = "idle"

----------------------------------------------------------------------------
\* C24: the watch loop leaves its select only when the shutdown signal has
\* been given or the context passed to Start is cancelled, and it reaches
\* its exit by no other way; it closes the watch handle before it gives the
\* done signal, so whoever sees the done signal sees the handle closed.
C24_ExitOnlyWhenAsked ==
    /\ [][(loopPc # "closing" /\ loopPc' = "closing") =>
            /\ loopPc = "select"
            /\ shutdownCH = "closed" \/ ctxDone]_vars
    /\ [][(loopPc' = "closed" => loopPc \in {"closing", "closed"})
          /\ (loopPc' = "exited" => loopPc \in {"closed", "exited"})]_vars
    /\ [](doneCH = "closed" => watcherState = "closed")
    /\ [](loopPc = "exited" => doneCH = "closed")

\* The loop has exited on a cancelled context, without any Shutdown call,
\* with the handle closed and the done signal given.
C24_Witness ==
    /\ loopPc = "exited"
    /\ ctxDone
    /\ shutdownCH = "open"
    /\ doneCH = "closed"
    /\ watcherState = "closed"

----------------------------------------------------------------------------
\* C25: the watch handle is used by the watch loop alone: the thread that
\* calls Start does not hold a handle it created (positions start_spawn,
\* start_add), and is not at its call of watcher.Add, while the loop runs.
C25_HandleOwnedByLoop ==
    /\ callerPc = "start_spawn" => watcherState # "open"
    /\ callerPc = "start_add" => loopPc \in {"none", "exited"}

----------------------------------------------------------------------------
\* C26: publications are totally ordered and never rolled back: the loop
\* does not exist while the initial load of Start is running, at most one
\* reload is in progress at any time, the published value changes only in
\* the store of a successful reload, and right after that store Value()
\* is the trimmed content that reload read.
InProgress(t) == rstep[t] # "idle"

C26_PublicationsOrdered ==
    /\ [](InProgress("start") => loopPc = "none")
    /\ [](~(InProgress("start") /\ InProgress("loop")))
    /\ [](InProgress("loop") <=> loopPc \in {"reload1", "reload2"})
    /\ [][\A t \in Threads :
            (rstep[t] = "store" /\ rstep'[t] = "cb") =>
                /\ TrimSpace(data[t][1]) # <<>>
                /\ Value' = TrimSpace(data[t][1])]_vars
    /\ [][value' # value =>
            \E t \in Threads : rstep[t] = "store" /\ rstep'[t] = "cb"]_vars

\* A reload of the loop has just stored a value that differs from the one
\* the initial load had published.
C26_Witness ==
    /\ rstep["loop"] = "cb"
    /\ preValue["loop"] # <<>>
    /\ value # preValue["loop"]
    /\ Value = TrimSpace(data["loop"][1])

----------------------------------------------------------------------------
\* C27: Value() of a file resolver is the empty string exactly when no
\* reload has ever succeeded (nothing was stored, and with an onChange
\* callback: the callback was never called nor is about to be), and it is
\* not empty in any state after Start has returned nil.
C27_EmptyIffNeverLoaded ==
    resolver = "file" =>
        /\ Value = <<>> <=> value = <<>>
        /\ hasOnChange =>
             (Value = <<>> <=>
                 /\ onChangeCalls = 0
                 /\ \A t \in Threads : rstep[t] # "cb")
        /\ (\E t \in Threads : rstep[t] = "cb") => Value # <<>>
        /\ startErr = "nil" => Value # <<>>
        /\ startErr = "load" => Value = <<>>

\* Start has returned nil, the callback has been called for the initial
\* load and for a reload of the loop, and a further reload of the loop has
\* just failed on content that is blank.
C27_Witness ==
    /\ resolver = "file"
    /\ startErr = "nil"
    /\ hasOnChange
    /\ onChangeCalls = 2
    /\ lastOp = "replace"
    /\ content \in {<<>>, <<" ", "\n">>}
    /\ loopPc = "select"
    /\ events = <<>>
    /\ Value # <<>>

----------------------------------------------------------------------------
\* C28: the loop attempts a reload for exactly the events whose class
\* includes write, remove or chmod.  An event with remove or chmod is
\* taken through removal and re-registration into a reload; an event with
\* write is taken into a reload before the loop selects again; an event
\* of another class (create, rename) takes the loop back to its select
\* with no reload begun, the registration and the published value as they
\* were.
Relevant(e) == e.Op \cap {"Write", "Remove", "Chmod"} # {}

C28_ReloadForRelevantEvents ==
    /\ [](loopPc \in {"remove", "add", "reload1"}
            => ev.Op \cap {"Remove", "Chmod"} # {})
    /\ [](loopPc = "reload2" => "Write" \in ev.Op)
    /\ [](loopPc = "checkWrite" => ev # NoEvent)
    /\ [][(loopPc = "select" /\ loopPc' \notin {"select", "closing"}) =>
            /\ ev' = Head(events)
            /\ loopPc' = IF ev'.Op \cap {"Remove", "Chmod"} # {}
                         THEN "remove" ELSE "checkWrite"]_vars
    /\ [][(loopPc = "remove" => loopPc' \in {"remove", "add"})
          /\ (loopPc = "add" /\ loopPc' # "add" =>
                loopPc' = "reload1" /\ rstep'["loop"] = "read")
          /\ (loopPc = "reload1" /\ loopPc' # "reload1" =>
                loopPc' = "checkWrite" /\ ev' = ev)]_vars
    /\ [][(loopPc = "checkWrite" /\ loopPc' # "checkWrite") =>
            IF "Write" \in ev.Op
            THEN loopPc' = "reload2" /\ rstep'["loop"] = "read"
            ELSE /\ loopPc' = "select"
                 /\ UNCHANGED <<value, watchInode, watcherState, rstep,
                                onChangeCalls>>]_vars
    /\ []((ev # NoEvent /\ ~Relevant(ev)) =>
            /\ loopPc = "checkWrite"
            /\ rstep["loop"] = "idle")

\* An event of the classes write and chmod has been through the reload
\* after re-registration and is in its second reload.
C28_Witness ==
    /\ loopPc = "reload2"
    /\ ev.Op = {"Write", "Chmod"}
    /\ rstep["loop"] = "store"

----------------------------------------------------------------------------
\* Shutdown under fair scheduling, with events that keep arriving.  The
\* watch goroutine and the thread inside Shutdown take a step when they
\* can (WF).  A select with several ready cases picks one of them at
\* random, so a case that is ready again and again is eventually picked
\* (SF on the shutdown and the context case).
SpecStop ==
    /\ InitEvents
    /\ [][NextEvents]_vars
    /\ WF_vars(LoopProc)
    /\ WF_vars(ShutdownWait)
    /\ SF_vars(LoopSelectShutdown)
    /\ SF_vars(LoopSelectCtx)

\* C29: after a Start that spawned the loop, a Shutdown that has closed
\* the shutdown channel and waits for the done signal eventually returns,
\* whatever events are pending or keep arriving, whatever reload is in
\* flight, and also when the context was cancelled and the loop has exited
\* before; no call of Shutdown finds the channel already closed.
C29_ShutdownTerminates ==
    /\ (callerPc = "sd_wait") ~> (callerPc = "stopped" /\ loopPc = "exited")
    /\ [](callerPc # "panic")

\* Shutdown waits while the loop is inside a reload and an event is
\* pending.
C29_Witness ==
    /\ callerPc = "sd_wait"
    /\ rstep["loop"] = "store"
    /\ events # <<>>
    /\ ~ctxDone

----------------------------------------------------------------------------
\* eventHubEventHandler: run starts one receiver goroutine for each
\* partition of the event hub, close cancels their context and waits for
\* them.

InitHub ==
    /\ CallerInit
    /\ WatcherInit
    /\ FsInit
    /\ fileInode = 0
    /\ BlobUnused
    /\ HubInit

\* A panic in a goroutine that nothing recovers ends the process, once the
\* deferred calls of that goroutine have run; until then the other
\* goroutines go on.
HubCrashed == \E i \in Partitions : receivers[i] = "crashed"

\* setLogsDataConsumer, setTracesDataConsumer: called by the receiver
\* before run.
SetDataConsumer(c) ==
    /\ ~HubCrashed
    /\ runPc = "idle"
    /\ runs = 0
    /\ ~hubHasConsumer[c]
    /\ hubHasConsumer' = [hubHasConsumer EXCEPT ![c] = TRUE]
    /\ UNCHANGED <<fileVars, blobVars>>
    /\ UNCHANGED <<hub, hubCancelFunc, hubCtxDone, hubWg, partitionIDs, runPc,
                   runErr, runs, partIdx, receivers, polls, pending, outcome,
                   hubClosePc, hubCloseErr>>

\* The return of run with error err ("nil" for none).
RunReturn(err) ==
    /\ runPc' = "returned"
    /\ runErr' = err

\* run: if p.hub != nil { return nil }
HubRun ==
    /\ ~HubCrashed
    /\ runPc \in {"idle", "returned"}
    /\ hubClosePc = "idle"
    /\ runs < MaxRuns
    /\ runs' = runs + 1
    /\ IF hub # "nil"
       THEN RunReturn("nil")
       ELSE runPc' = "connect" /\ runErr' = "unset"
    /\ UNCHANGED <<fileVars, blobVars>>
    /\ UNCHANGED <<hub, hubCancelFunc, hubCtxDone, hubWg, partitionIDs,
                   partIdx, receivers, polls, pending, outcome,
                   hubHasConsumer, hubClosePc, hubCloseErr>>

\* hub, err := azeventhubs.NewConsumerClientFromConnectionString(...);
\* if err != nil { return err }; p.hub = hub
HubConnect(ok) ==
    /\ ~HubCrashed
    /\ runPc = "connect"
    /\ IF ok
       THEN /\ hub' = "open"
            /\ runPc' = "props"
            /\ UNCHANGED runErr
       ELSE /\ RunReturn("connect")
            /\ UNCHANGED hub
    /\ UNCHANGED <<fileVars, blobVars>>
    /\ UNCHANGED <<hubCancelFunc, hubCtxDone, hubWg, partitionIDs, runs,
                   partIdx, receivers, polls, pending, outcome,
                   hubHasConsumer, hubClosePc, hubCloseErr>>

\* runtimeInfo, err := p.hub.GetEventHubProperties(ctx, nil);
\* if err != nil { return err };
\* pcCtx, cancelFunc := context.WithCancel(ctx); p.cancelFunc = cancelFunc
HubGetProperties(ok, n) ==
    /\ ~HubCrashed
    /\ runPc = "props"
    /\ IF ok
       THEN /\ partitionIDs' = n
            /\ hubCancelFunc' = "set"
            /\ partIdx' = 1
            /\ runPc' = "range"
            /\ UNCHANGED runErr
       ELSE /\ n = 0
            /\ RunReturn("props")
            /\ UNCHANGED <<partitionIDs, hubCancelFunc, partIdx>>
    /\ UNCHANGED <<fileVars, blobVars>>
    /\ UNCHANGED <<hub, hubCtxDone, hubWg, runs, receivers, polls, pending,
                   outcome, hubHasConsumer, hubClosePc, hubCloseErr>>

\* for _, partitionID := range runtimeInfo.PartitionIDs { p.wg.Add(1) ...
\* and, after the last partition, return nil
HubRange ==
    /\ ~HubCrashed
    /\ runPc = "range"
    /\ IF partIdx <= partitionIDs
       THEN /\ hubWg' = hubWg + 1
            /\ runPc' = "client"
            /\ UNCHANGED runErr
       ELSE /\ RunReturn("nil")
            /\ UNCHANGED hubWg
    /\ UNCHANGED <<fileVars, blobVars>>
    /\ UNCHANGED <<hub, hubCancelFunc, hubCtxDone, partitionIDs, runs,
                   partIdx, receivers, polls, pending, outcome,
                   hubHasConsumer, hubClosePc, hubCloseErr>>

\* pc, err := p.hub.NewPartitionClient(...); if err != nil { return err };
\* go p.receiveEvents(pcCtx, pc, p.newMessageHandler) }
HubNewPartitionClient(ok) ==
    /\ ~HubCrashed
    /\ runPc = "client"
    /\ IF ok
       THEN /\ receivers' = [receivers EXCEPT ![partIdx] = "check"]
            /\ partIdx' = partIdx + 1
            /\ runPc' = "range"
            /\ UNCHANGED runErr
       ELSE /\ RunReturn("client")
            /\ UNCHANGED <<receivers, partIdx>>
    /\ UNCHANGED <<fileVars, blobVars>>
    /\ UNCHANGED <<hub, hubCancelFunc, hubCtxDone, hubWg, partitionIDs, runs,
                   polls, pending, outcome, hubHasConsumer, hubClosePc,
                   hubCloseErr>>

\* receiveEvents of partition i: if ctx.Err() != nil { return }, else the
\* goroutine enters pc.ReceiveEvents(timeoutCtx, ...).
ReceiveCheck(i) ==
    /\ ~HubCrashed
    /\ receivers[i] = "check"
    /\ IF hubCtxDone
       THEN receivers' = [receivers EXCEPT ![i] = "closing"]
       ELSE /\ polls[i] < MaxPolls
            /\ receivers' = [receivers EXCEPT ![i] = "blocked"]
    /\ UNCHANGED <<fileVars, blobVars>>
    /\ UNCHANGED <<hub, hubCancelFunc, hubCtxDone, hubWg, partitionIDs, runPc,
                   runErr, runs, partIdx, polls, pending, outcome,
                   hubHasConsumer, hubClosePc, hubCloseErr>>

\* pc.ReceiveEvents returns: with the events it has, or with none on the
\* time-out, on the cancellation of the context or on an error, which is
\* only logged.  The context may have been cancelled while the call was
\* blocked; the events it returns are handled all the same.
ReceiveEvents(i, batch) ==
    /\ ~HubCrashed
    /\ receivers[i] = "blocked"
    /\ polls' = [polls EXCEPT ![i] = @ + 1]
    /\ pending' = [pending EXCEPT ![i] = batch]
    /\ receivers' = [receivers EXCEPT
                       ![i] = IF batch = <<>> THEN "check" ELSE "handle"]
    /\ UNCHANGED <<fileVars, blobVars>>
    /\ UNCHANGED <<hub, hubCancelFunc, hubCtxDone, hubWg, partitionIDs, runPc,
                   runErr, runs, partIdx, outcome, hubHasConsumer,
                   hubClosePc, hubCloseErr>>

\* newMessageHandler on event e, where readOk and consumeOk say whether
\* readBlob and the consumer succeed: what the call does.  "panic" is an
\* index out of range (no element in the decoded array, no "containers/"
\* or "blobs/" in the subject) or a call on a consumer that is nil.
NewMessageHandler(e, readOk, consumeOk) ==
    IF e.body = "invalid" THEN "unmarshalErr"
    ELSE IF e.body = "empty" THEN "panic"
    ELSE IF ~e.hasContainers THEN "panic"
    ELSE IF ~e.hasBlobs THEN "panic"
    ELSE IF e.eventType # "Microsoft.Storage.BlobCreated" THEN "ignored"
    ELSE IF ~readOk THEN "readBlobErr"
    ELSE IF e.container \in Containers
    THEN IF ~hubHasConsumer[e.container] THEN "panic"
         ELSE IF consumeOk THEN "consumed" ELSE "consumeErr"
    ELSE "unknownContainer"

\* for _, event := range events { handler(ctx, event) }: one event; an
\* error of the handler is only logged.  A panic of the handler unwinds
\* receiveEvents into its deferred calls.
HandleEvent(i, readOk, consumeOk) ==
    /\ ~HubCrashed
    /\ receivers[i] = "handle"
    /\ LET res == NewMessageHandler(Head(pending[i]), readOk, consumeOk) IN
         /\ outcome' = [outcome EXCEPT ![i] = res]
         /\ pending' = [pending EXCEPT ![i] = Tail(@)]
         /\ receivers' = [receivers EXCEPT
                            ![i] = IF res = "panic" THEN "panicClosing"
                                   ELSE IF Tail(pending[i]) = <<>>
                                   THEN "check" ELSE "handle"]
    /\ UNCHANGED <<fileVars, blobVars>>
    /\ UNCHANGED <<hub, hubCancelFunc, hubCtxDone, hubWg, partitionIDs, runPc,
                   runErr, runs, partIdx, polls, hubHasConsumer, hubClosePc,
                   hubCloseErr>>

\* defer pc.Close(ctx): a call to the service; its error is dropped.  It
\* runs on the return of receiveEvents and on a panic alike.
ReceiveClose(i) ==
    /\ ~HubCrashed
    /\ receivers[i] \in {"closing", "panicClosing"}
    /\ receivers' = [receivers EXCEPT
                       ![i] = IF @ = "closing" THEN "closed"
                              ELSE "panicClosed"]
    /\ UNCHANGED <<fileVars, blobVars>>
    /\ UNCHANGED <<hub, hubCancelFunc, hubCtxDone, hubWg, partitionIDs, runPc,
                   runErr, runs, partIdx, polls, pending, outcome,
                   hubHasConsumer, hubClosePc, hubCloseErr>>

\* defer p.wg.Done(): the last deferred call; after it the goroutine has
\* returned or, on a panic, the runtime is about to end the process.
ReceiveDone(i) ==
    /\ ~HubCrashed
    /\ receivers[i] \in {"closed", "panicClosed"}
    /\ receivers' = [receivers EXCEPT
                       ![i] = IF @ = "closed" THEN "exited" ELSE "panicDone"]
    /\ hubWg' = hubWg - 1
    /\ UNCHANGED <<fileVars, blobVars>>
    /\ UNCHANGED <<hub, hubCancelFunc, hubCtxDone, partitionIDs, runPc,
                   runErr, runs, partIdx, polls, pending, outcome,
                   hubHasConsumer, hubClosePc, hubCloseErr>>

\* The panic of receiver i, with no deferred call left and nothing that
\* recovers it, ends the process.
HubPanicExit(i) ==
    /\ ~HubCrashed
    /\ receivers[i] = "panicDone"
    /\ receivers' = [receivers EXCEPT ![i] = "crashed"]
    /\ UNCHANGED <<fileVars, blobVars>>
    /\ UNCHANGED <<hub, hubCancelFunc, hubCtxDone, hubWg, partitionIDs, runPc,
                   runErr, runs, partIdx, polls, pending, outcome,
                   hubHasConsumer, hubClosePc, hubCloseErr>>

\* close: if p.cancelFunc != nil { p.cancelFunc() }
HubClose ==
    /\ ~HubCrashed
    /\ hubClosePc = "idle"
    /\ runPc \in {"idle", "returned"}
    /\ hubCtxDone' = IF hubCancelFunc # "nil" THEN TRUE ELSE hubCtxDone
    /\ hubClosePc' = "wait"
    /\ UNCHANGED <<fileVars, blobVars>>
    /\ UNCHANGED <<hub, hubCancelFunc, hubWg, partitionIDs, runPc, runErr,
                   runs, partIdx, receivers, polls, pending, outcome,
                   hubHasConsumer, hubCloseErr>>

\* p.wg.Wait() returns when the counter is zero.
HubWgZero == hubWg = 0

\* p.wg.Wait(); if p.hub != nil { err := p.hub.Close(ctx);
\* if err != nil { return err }; p.hub = nil }; return nil
HubCloseWait(ok) ==
    /\ ~HubCrashed
    /\ hubClosePc = "wait"
    /\ HubWgZero
    /\ IF hub # "nil"
       THEN /\ hub' = IF ok THEN "nil" ELSE hub
            /\ hubCloseErr' = IF ok THEN "nil" ELSE "close"
       ELSE /\ ok
            /\ hubCloseErr' = "nil"
            /\ UNCHANGED hub
    /\ hubClosePc' = "returned"
    /\ UNCHANGED <<fileVars, blobVars>>
    /\ UNCHANGED <<hubCancelFunc, hubCtxDone, hubWg, partitionIDs, runPc,
                   runErr, runs, partIdx, receivers, polls, pending, outcome,
                   hubHasConsumer>>

\* The context passed to run is cancelled by its owner; the context of the
\* receivers is derived from it.
HubCancelParent ==
    /\ ~HubCrashed
    /\ hubCancelFunc = "set"
    /\ ~hubCtxDone
    /\ hubCtxDone' = TRUE
    /\ UNCHANGED <<fileVars, blobVars>>
    /\ UNCHANGED <<hub, hubCancelFunc, hubWg, partitionIDs, runPc, runErr,
                   runs, partIdx, receivers, polls, pending, outcome,
                   hubHasConsumer, hubClosePc, hubCloseErr>>

NextHub ==
    \/ \E c \in Containers : SetDataConsumer(c)
    \/ HubRun
    \/ \E ok \in BOOLEAN : HubConnect(ok)
    \/ \E ok \in BOOLEAN, n \in 0..MaxPartitions : HubGetProperties(ok, n)
    \/ HubRange
    \/ \E ok \in BOOLEAN : HubNewPartitionClient(ok)
    \/ \E i \in Partitions : ReceiveCheck(i)
    \/ \E i \in Partitions, batch \in Batches : ReceiveEvents(i, batch)
    \/ \E i \in Partitions, readOk, consumeOk \in BOOLEAN :
          HandleEvent(i, readOk, consumeOk)
    \/ \E i \in Partitions : ReceiveClose(i)
    \/ \E i \in Partitions : ReceiveDone(i)
    \/ \E i \in Partitions : HubPanicExit(i)
    \/ HubClose
    \/ \E ok \in BOOLEAN : HubCloseWait(ok)
    \/ HubCancelParent

SpecHub == InitHub /\ [][NextHub]_vars

\* C30: after every outcome of run (success, failure to get the hub
\* properties, failure to create the partition client of any partition)
\* the wait-group counter equals the number of receiver goroutines that
\* were started and have not finished, so that the wait of close returns
\* once they have all seen the cancellation.
C30_WaitGroupMatchesReceivers ==
    runPc = "returned" =>
        hubWg = Cardinality({i \in Partitions :
                               receivers[i] \notin
                                   {"none", "exited", "panicDone", "crashed"}})

====
